---- MODULE Spec2Model ----
(***************************************************************************)
(* A model of release-pilot: label resolution (github/labels), the Cargo   *)
(* workspace-aware ecosystem (ecosystems/cargo), and the release run of    *)
(* main.run() with its git, GitHub-release, publish and cleanup steps.     *)
(***************************************************************************)
EXTENDS Integers, Sequences, FiniteSets, TLC

(***************************************************************************)
(* Bounds of the model.                                                    *)
(***************************************************************************)
MaxPRs == 2

MaxLabels == 2

(***************************************************************************)
(* github/labels: label configuration and pull requests.                   *)
(***************************************************************************)

\* config/loader.ts DEFAULT_LABELS
DEFAULT_LABELS ==
    [major |-> "release:major", minor |-> "release:minor", patch |-> "release:patch",
     skip  |-> "release:skip",  alpha |-> "release:alpha", beta  |-> "release:beta",
     rc    |-> "release:rc"]

\* Label strings that occur on pull requests of the model.
PRLabels ==
    {"release:major", "release:minor", "release:patch", "release:skip", "release:rc",
     "bug"}

\* The label lists a pull request may carry (a list is read only through
\* membership tests, so it is kept as the set of its elements).
PRLabelSets == {labels \in SUBSET PRLabels : Cardinality(labels) <= MaxLabels}

\* Batches of pull requests: sequences of label lists, in API order.
RECURSIVE SeqsUpTo(_, _)
SeqsUpTo(S, n) ==
    IF n = 0 THEN {<<>>}
    ELSE LET shorter == SeqsUpTo(S, n - 1)
         IN  shorter \cup {Append(s, x) : s \in {t \in shorter : Len(t) = n - 1}, x \in S}

\* Label configurations of the model: the defaults, and configurations whose
\* skip label coincides with another role's label or with an ordinary label.
LabelConfigs ==
    {[DEFAULT_LABELS EXCEPT !.skip = s] : s \in {"release:skip", "release:minor", "bug"}}

\* The seven configured label strings (validLabels of extractReleaseLabels).
validLabels(config) ==
    {config.major, config.minor, config.patch, config.skip,
     config.alpha, config.beta, config.rc}

\* The labels collected by the two nested loops of extractReleaseLabels.
collectedLabels(batch, config) ==
    {l \in validLabels(config) : \E i \in 1..Len(batch) : l \in batch[i]}

\* prs.every((pr) => pr.labels.includes(config.skip))
allPRsHaveSkip(batch, config) ==
    \A i \in 1..Len(batch) : config.skip \in batch[i]

\* extractReleaseLabels without the consensus step: any PR's skip label stays.
extractReleaseLabelsAnySkip(batch, config) == collectedLabels(batch, config)

\* extractReleaseLabels(prs, config): the release labels of the batch, the
\* skip label being removed unless every PR carries it.
extractReleaseLabels(batch, config) ==
    LET collected == collectedLabels(batch, config)
    IN  IF config.skip \in collected /\ Len(batch) > 0 /\ ~allPRsHaveSkip(batch, config)
        THEN collected \ {config.skip}
        ELSE collected

\* getBumpTypeFromLabels that never finds a bump label
getBumpTypeFromLabelsNoBump(labels, config) ==
    IF config.skip \in labels
    THEN [bumpType |-> "null", skip |-> TRUE, prerelease |-> "null"]
    ELSE [bumpType   |-> "null",
          skip       |-> FALSE,
          prerelease |-> IF config.rc \in labels THEN "rc"
                         ELSE IF config.beta \in labels THEN "beta"
                         ELSE IF config.alpha \in labels THEN "alpha"
                         ELSE "null"]

\* getBumpTypeFromLabels with the prerelease labels tested lowest first
getBumpTypeFromLabelsAlphaFirst(labels, config) ==
    IF config.skip \in labels
    THEN [bumpType |-> "null", skip |-> TRUE, prerelease |-> "null"]
    ELSE [bumpType   |-> IF config.major \in labels THEN "major"
                         ELSE IF config.minor \in labels THEN "minor"
                         ELSE IF config.patch \in labels THEN "patch"
                         ELSE "null",
          skip       |-> FALSE,
          prerelease |-> IF config.alpha \in labels THEN "alpha"
                         ELSE IF config.beta \in labels THEN "beta"
                         ELSE IF config.rc \in labels THEN "rc"
                         ELSE "null"]

\* getBumpTypeFromLabels with the bump labels tested lowest first
getBumpTypeFromLabelsLowestFirst(labels, config) ==
    IF config.skip \in labels
    THEN [bumpType |-> "null", skip |-> TRUE, prerelease |-> "null"]
    ELSE [bumpType   |-> IF config.patch \in labels THEN "patch"
                         ELSE IF config.minor \in labels THEN "minor"
                         ELSE IF config.major \in labels THEN "major"
                         ELSE "null",
          skip       |-> FALSE,
          prerelease |-> IF config.rc \in labels THEN "rc"
                         ELSE IF config.beta \in labels THEN "beta"
                         ELSE IF config.alpha \in labels THEN "alpha"
                         ELSE "null"]

\* getBumpTypeFromLabels(labels, config)
getBumpTypeFromLabels(labels, config) ==
    IF config.skip \in labels
    THEN [bumpType |-> "null", skip |-> TRUE, prerelease |-> "null"]
    ELSE [bumpType   |-> IF config.major \in labels THEN "major"
                         ELSE IF config.minor \in labels THEN "minor"
                         ELSE IF config.patch \in labels THEN "patch"
                         ELSE "null",
          skip       |-> FALSE,
          prerelease |-> IF config.rc \in labels THEN "rc"
                         ELSE IF config.beta \in labels THEN "beta"
                         ELSE IF config.alpha \in labels THEN "alpha"
                         ELSE "null"]

(***************************************************************************)
(* core/version: semantic versions.  A version string is kept as its       *)
(* parsed fields; pre is <<>> for a stable version and <<suffix, token>>   *)
(* for "-suffix.token".  InvalidVersion stands for a string semver.parse   *)
(* rejects.                                                                *)
(***************************************************************************)
Version(ma, mi, pa, pre) == [major |-> ma, minor |-> mi, patch |-> pa, pre |-> pre]

InvalidVersion == [major |-> -1, minor |-> -1, patch |-> -1, pre |-> <<>>]

\* semver.parse(version) !== null
isValid(v) == v.major >= 0

\* semver.inc(cleanVersion, type) on a clean major.minor.patch
inc(v, type) ==
    CASE type = "major" -> Version(v.major + 1, 0, 0, <<>>)
      [] type = "minor" -> Version(v.major, v.minor + 1, 0, <<>>)
      [] type = "patch" -> Version(v.major, v.minor, v.patch + 1, <<>>)

\* semver.inc(version, type) on the version as given: a prerelease is
\* promoted to its own major.minor.patch when that already is the bumped one.
incAsGiven(v, type) ==
    IF ~isValid(v) THEN InvalidVersion
    ELSE CASE type = "major" ->
                IF v.pre # <<>> /\ v.minor = 0 /\ v.patch = 0
                THEN Version(v.major, 0, 0, <<>>)
                ELSE Version(v.major + 1, 0, 0, <<>>)
           [] type = "minor" ->
                IF v.pre # <<>> /\ v.patch = 0
                THEN Version(v.major, v.minor, 0, <<>>)
                ELSE Version(v.major, v.minor + 1, 0, <<>>)
           [] type = "patch" ->
                IF v.pre # <<>>
                THEN Version(v.major, v.minor, v.patch, <<>>)
                ELSE Version(v.major, v.minor, v.patch + 1, <<>>)

\* A variant that cleans the version of its suffix and leaves the numbers.
bumpVersionInPlace(v, type) ==
    IF ~isValid(v) THEN InvalidVersion
    ELSE Version(v.major, v.minor, v.patch, <<>>)

\* bumpVersion(version, type); InvalidVersion stands for the thrown
\* Error(`Invalid version: ...`).
bumpVersion(v, type) ==
    IF ~isValid(v) THEN InvalidVersion
    ELSE inc(Version(v.major, v.minor, v.patch, <<>>), type)

\* now.toISOString().replace(/[-:T]/g, '').replace(/\.\d+Z$/, ''): the clock,
\* which ticks in half seconds, cut to whole seconds and written as
\* YYYYMMDDHHmmss.  The digits of the date and hour, the same all along,
\* are kept as one leading 1; the minutes and seconds have two digits each.
timestamp(clock) ==
    LET seconds == clock \div 2
    IN  10000 + (seconds \div 60) * 100 + (seconds % 60)

\* createDevVersion(baseVersion, suffix) at clock reading `clock`
createDevVersion(v, suffix, clock) ==
    IF ~isValid(v) THEN InvalidVersion
    ELSE Version(v.major, v.minor, v.patch, <<suffix, timestamp(clock)>>)

(***************************************************************************)
(* Strings, where their characters matter: a string is the sequence of     *)
(* its UTF-16 code units.                                                  *)
(***************************************************************************)
RECURSIVE digits(_)
digits(n) == IF n < 10 THEN <<48 + n>> ELSE digits(n \div 10) \o <<48 + (n % 10)>>

chars(s) ==
    CASE s = "dev"     -> <<100, 101, 118>>
      [] s = "alpha"   -> <<97, 108, 112, 104, 97>>
      [] s = "beta"    -> <<98, 101, 116, 97>>
      [] s = "rc"      -> <<114, 99>>
      [] s = "nightly" -> <<110, 105, 103, 104, 116, 108, 121>>
      [] s = "v"       -> <<118>>
      [] s = ""        -> <<>>

\* The text of a version: major.minor.patch[-suffix.token]
versionString(v) ==
    digits(v.major) \o <<46>> \o digits(v.minor) \o <<46>> \o digits(v.patch)
    \o (IF v.pre = <<>> THEN <<>>
        ELSE <<45>> \o chars(v.pre[1]) \o <<46>> \o digits(v.pre[2]))

\* A tag is a prefix and the version that follows it; a floating tag shows
\* only the first one or two parts of the version.
Tag(prefix, v) == [prefix |-> prefix, version |-> v, parts |-> 3]

FloatingTag(prefix, v, n) ==
    [prefix |-> prefix,
     version |-> Version(v.major, IF n >= 2 THEN v.minor ELSE 0, 0, <<>>),
     parts |-> n]

tagString(t) ==
    chars(t.prefix) \o
    (IF t.parts >= 3 THEN versionString(t.version)
     ELSE digits(t.version.major) \o
          (IF t.parts >= 2 THEN <<46>> \o digits(t.version.minor) ELSE <<>>))

\* a < b in the order of Array.prototype.sort() without a comparator
RECURSIVE stringLess(_, _)
stringLess(a, b) ==
    IF b = <<>> THEN FALSE
    ELSE IF a = <<>> THEN TRUE
    ELSE IF Head(a) # Head(b) THEN Head(a) < Head(b)
    ELSE stringLess(Tail(a), Tail(b))

\* version.includes('-' + marker): the text after a '-' starts with marker.
\* The only '-' of a version text precedes its suffix.
RECURSIVE isPrefix(_, _)
isPrefix(p, s) ==
    IF p = <<>> THEN TRUE
    ELSE IF s = <<>> THEN FALSE
    ELSE Head(p) = Head(s) /\ isPrefix(Tail(p), Tail(s))

includesMarker(v, marker) ==
    v.pre # <<>> /\ isPrefix(chars(marker), chars(v.pre[1]))

\* compareVersions(a, b), which is semver.compare: 1 if a > b, -1 if a < b,
\* 0 if equal.  The parts are compared as numbers; a version with a
\* prerelease suffix comes before the same version without one, and two
\* suffixes compare by their name as text, then by their token as a number.
compareVersions(a, b) ==
    LET cmp(x, y) == IF x < y THEN -1 ELSE IF x > y THEN 1 ELSE 0
        pre == IF a.pre = <<>> /\ b.pre = <<>> THEN 0
               ELSE IF a.pre = <<>> THEN 1
               ELSE IF b.pre = <<>> THEN -1
               ELSE IF stringLess(chars(a.pre[1]), chars(b.pre[1])) THEN -1
               ELSE IF stringLess(chars(b.pre[1]), chars(a.pre[1])) THEN 1
               ELSE cmp(a.pre[2], b.pre[2])
    IN  IF cmp(a.major, b.major) # 0 THEN cmp(a.major, b.major)
        ELSE IF cmp(a.minor, b.minor) # 0 THEN cmp(a.minor, b.minor)
        ELSE IF cmp(a.patch, b.patch) # 0 THEN cmp(a.patch, b.patch)
        ELSE pre

(***************************************************************************)
(* core/git: tags.                                                         *)
(***************************************************************************)

\* formatTag(prefix, version): a version text never starts with 'v'.
formatTag(prefix, v) == Tag(prefix, v)

\* parseTagVersion(tag, prefix): the prefix is sliced off when the tag starts
\* with it; otherwise the tag text is returned whole, and semver.parse then
\* drops a leading 'v' itself.  Either way the version fields are the tag's.
parseTagVersion(t, prefix) == t.version

(***************************************************************************)
(* github/releases and core/cleanup: classification and selection.         *)
(* A release is [id, tagName, publishedAt, prerelease].                    *)
(***************************************************************************)
ReleaseTypes == <<"dev", "alpha", "beta", "rc", "stable">>

\* getReleaseType(version)
getReleaseType(v) ==
    IF includesMarker(v, "dev") THEN "dev"
    ELSE IF includesMarker(v, "alpha") THEN "alpha"
    ELSE IF includesMarker(v, "beta") THEN "beta"
    ELSE IF includesMarker(v, "rc") THEN "rc"
    ELSE "stable"

\* A variant in which no tag name matches the prerelease pattern.
matchesNoTag(t, pattern) == FALSE

\* new RegExp(prereleasePattern).test(tagName), the pattern being an
\* alternation of "-marker" texts kept as the set of its markers.
matchesPattern(t, pattern) == \E m \in pattern : includesMarker(t.version, m)

\* findLastStableRelease(releases, prereleasePattern): index of the first
\* release that is a prerelease neither by flag nor by tag, 0 for null.
findLastStableRelease(rels, pattern) ==
    LET stable == {i \in 1..Len(rels) :
                      ~rels[i].prerelease /\ ~matchesPattern(rels[i].tagName, pattern)}
    IN  IF stable = {} THEN 0 ELSE CHOOSE i \in stable : \A j \in stable : i <= j

\* releases.filter(...) keeping order
RECURSIVE filterByType(_, _)
filterByType(rels, type) ==
    IF rels = <<>> THEN <<>>
    ELSE LET rest == filterByType(Tail(rels), type)
         IN  IF getReleaseType(Head(rels).tagName.version) = type
             THEN <<Head(rels)>> \o rest ELSE rest

\* [...matching].sort((a, b) => b.publishedAt - a.publishedAt): a stable sort,
\* most recent first.
RECURSIVE insertByDate(_, _)
insertByDate(r, sorted) ==
    IF sorted = <<>> THEN <<r>>
    ELSE IF Head(sorted).publishedAt >= r.publishedAt
         THEN <<Head(sorted)>> \o insertByDate(r, Tail(sorted))
         ELSE <<r>> \o sorted

RECURSIVE sortByDateDesc(_)
sortByDateDesc(rels) ==
    IF rels = <<>> THEN <<>>
    ELSE LET n == Len(rels)
         IN  insertByDate(rels[n], sortByDateDesc(SubSeq(rels, 1, n - 1)))

\* sorted.slice(keep), with a variant that starts one element later.
sliceAfter(seq, from) == SubSeq(seq, from + 2, Len(seq))

slice(seq, from) == SubSeq(seq, from + 1, Len(seq))

\* getReleasesToCleanup(releases, releaseType, tagPrefix, keep), with a
\* variant that lacks the `keep === 0` test.
getReleasesToCleanupBeyondKeep(rels, type, keep) ==
    LET sorted == sortByDateDesc(filterByType(rels, type))
    IN  IF Len(sorted) <= keep THEN <<>> ELSE slice(sorted, keep)

getReleasesToCleanup(rels, type, keep) ==
    LET sorted == sortByDateDesc(filterByType(rels, type))
    IN  IF keep = 0 \/ Len(sorted) <= keep THEN <<>> ELSE slice(sorted, keep)

\* getTagsForType(releaseType, tagPrefix, options) over the output of `git tag -l`
getTagsForType(tagSet, type) == {t \in tagSet : getReleaseType(t.version) = type}

\* [...tags].sort().reverse(): the tags in descending order of their text
RECURSIVE sortReverse(_)
sortReverse(tagSet) ==
    IF tagSet = {} THEN <<>>
    ELSE LET top == CHOOSE t \in tagSet :
                        \A u \in tagSet \ {t} : stringLess(tagString(u), tagString(t))
         IN  <<top>> \o sortReverse(tagSet \ {top})

\* getTagsToCleanup(tags, keep)
getTagsToCleanup(tagSet, keep) ==
    IF keep = 0 \/ Cardinality(tagSet) <= keep THEN <<>>
    ELSE slice(sortReverse(tagSet), keep)

(***************************************************************************)
(* ecosystems: the capabilities main.run() and core/cleanup dispatch on.   *)
(***************************************************************************)

\* createRegistry(): the registered ecosystems, in registration order
registryOrder == <<"npm", "cargo", "python", "go", "composer", "docker", "custom">>

\* ecosystem.publish is defined
hasPublish(eco) == eco \in {"npm", "cargo", "python", "docker", "custom"}

\* ecosystem.postVersionUpdate is defined
hasPostVersionUpdate(eco) == eco \in {"npm", "cargo"}

\* ecosystem.supportsUnpublish && ecosystem.unpublish
hasUnpublish(eco) == eco \in {"npm", "python"}

\* The ecosystems whose writeVersion rewrites a manifest read with
\* readFileSync (BaseFileEcosystem and CargoEcosystem); custom creates its
\* file when absent, docker and go only log.
writesManifest(eco) == eco \in {"npm", "cargo", "python", "composer"}

\* registry.detect(process.cwd()): the first registered ecosystem whose
\* detect() holds; CustomEcosystem.detect() always holds.
detect(cwdManifests) ==
    LET hits == {i \in 1..Len(registryOrder) :
                    registryOrder[i] \in cwdManifests \/ registryOrder[i] = "custom"}
    IN  registryOrder[CHOOSE i \in hits : \A j \in hits : i <= j]

\* A configured package (ResolvedPackageConfig) and the state of its
\* manifest on disk: "ok", or "missing" when writeVersion cannot read it
\* (no file, or a Cargo member whose workspace root is not found).
Package(name, eco, upd, pub, manifest) ==
    [name |-> name, ecosystem |-> eco, updateVersionFile |-> upd,
     publish |-> pub, manifest |-> manifest]

\* packages.find((p) => p.name === pkgName): index in packages, 0 if absent
find(pkgs, name) ==
    LET hits == {i \in 1..Len(pkgs) : pkgs[i].name = name}
    IN  IF hits = {} THEN 0 ELSE CHOOSE i \in hits : \A j \in hits : i <= j

(***************************************************************************)
(* config/loader: the resolved configuration, with the action inputs       *)
(* default-bump and dev-suffix.                                            *)
(***************************************************************************)
Keep == 1

\* DEFAULT_CLEANUP_TYPE
NoCleanup == [tags |-> FALSE, releases |-> FALSE, published |-> FALSE, keep |-> 10]

CleanupPolicy(tags, releases, published, keep) ==
    [tags |-> tags, releases |-> releases, published |-> published, keep |-> keep]

\* A configuration with every step enabled.
FullConfig ==
    [skipIfNoChanges   |-> FALSE,
     defaultBump       |-> "patch",
     devSuffix         |-> "dev",
     devRelease        |-> TRUE,
     prereleasePattern |-> {"rc", "beta", "alpha"},
     tagPrefix         |-> "v",
     pushVersionCommit |-> TRUE,
     pushTag           |-> TRUE,
     floatingTags      |-> TRUE,
     githubRelease     |-> TRUE,
     publish           |-> TRUE,
     changelog         |-> TRUE,
     versionFiles      |-> TRUE,
     cleanup |-> [enabled |-> TRUE,
                  dev     |-> CleanupPolicy(TRUE, TRUE, TRUE, Keep),
                  alpha   |-> NoCleanup,
                  beta    |-> NoCleanup,
                  rc      |-> CleanupPolicy(TRUE, TRUE, FALSE, Keep),
                  stable  |-> CleanupPolicy(TRUE, TRUE, TRUE, Keep)]]

\* applyDefaults({}): DEFAULT_VERSION, DEFAULT_GIT, DEFAULT_PUBLISH,
\* DEFAULT_GITHUB_RELEASE, DEFAULT_CHANGELOG, DEFAULT_CLEANUP
DefaultConfig ==
    [FullConfig EXCEPT !.devRelease = FALSE, !.floatingTags = FALSE,
                       !.changelog = FALSE, !.versionFiles = FALSE,
                       !.cleanup = [enabled |-> FALSE, dev |-> NoCleanup,
                                    alpha |-> NoCleanup, beta |-> NoCleanup,
                                    rc |-> NoCleanup,
                                    stable |-> [NoCleanup EXCEPT !.keep = 0]]]

\* The configurations of the model.
RunConfigs ==
    {FullConfig, DefaultConfig,
     [FullConfig EXCEPT !.skipIfNoChanges = TRUE],
     [FullConfig EXCEPT !.pushTag = FALSE],
     [FullConfig EXCEPT !.pushVersionCommit = FALSE, !.githubRelease = FALSE],
     [FullConfig EXCEPT !.publish = FALSE, !.defaultBump = "minor"],
     [FullConfig EXCEPT !.devSuffix = "nightly", !.cleanup.enabled = FALSE]}

(***************************************************************************)
(* The inputs of a run: what the hosting service and the checkout hold     *)
(* when the action starts.                                                 *)
(***************************************************************************)
Release(id, tag, at, pre) ==
    [id |-> id, tagName |-> tag, publishedAt |-> at, prerelease |-> pre]

PR(labels, at) == [labels |-> labels, mergedAt |-> at]

\* Release histories, most recent first as listReleases returns them, with
\* the tags of the checkout.
ReleaseHistories ==
    LET s142 == Tag("v", Version(1, 4, 2, <<>>))
        s143 == Tag("v", Version(1, 4, 3, <<>>))
        rc   == Tag("v", Version(1, 4, 1, <<"rc", 3>>))
        dev1 == Tag("v", Version(1, 5, 0, <<"dev", 10010>>))
        dev2 == Tag("v", Version(1, 5, 0, <<"dev", 10015>>))
        bad  == Tag("", InvalidVersion)
    IN  { [releases |-> <<>>, tags |-> {}],
          [releases |-> <<Release(1, s142, 20, FALSE)>>, tags |-> {s142}],
          [releases |-> <<Release(1, s142, 20, FALSE)>>, tags |-> {s142, s143}],
          [releases |-> <<Release(4, dev2, 40, TRUE), Release(3, dev1, 30, TRUE),
                          Release(2, s142, 20, FALSE), Release(1, rc, 10, FALSE)>>,
           tags |-> {dev2, dev1, s142, rc}],
          [releases |-> <<Release(1, bad, 20, FALSE)>>, tags |-> {bad}] }

\* Merged pull requests as listMergedPullRequests returns them.
PRBatches ==
    { <<>>,
      <<PR({"release:minor"}, 50)>>,
      <<PR({"release:skip", "release:major"}, 50), PR({"bug", "release:patch"}, 51)>>,
      <<PR({"release:skip", "release:minor"}, 50)>>,
      <<PR({"release:rc"}, 50), PR({"release:major"}, 5)>>,
      <<PR({"release:minor"}, 20)>> }

\* config.packages, config.releaseOrder (hasOrder tells whether it is
\* defined) and the ecosystems whose manifest lies in the working directory.
PackageSetups ==
    LET Setup(pkgs, hasOrder, order, cwd) ==
            [packages |-> pkgs, hasOrder |-> hasOrder, releaseOrder |-> order,
             cwd |-> cwd]
    IN  { Setup(<<>>, FALSE, <<>>, {"cargo", "npm"}),
          Setup(<<>>, FALSE, <<>>, {}),
          Setup(<<Package("app", "npm", TRUE, TRUE, "ok")>>, FALSE, <<>>, {}),
          Setup(<<Package("core", "cargo", TRUE, TRUE, "ok"),
                  Package("cli", "npm", TRUE, TRUE, "ok")>>,
                TRUE, <<"cli", "ghost", "core">>, {}),
          Setup(<<Package("core", "cargo", TRUE, TRUE, "missing"),
                  Package("cli", "npm", TRUE, TRUE, "ok")>>, FALSE, <<>>, {}),
          Setup(<<Package("img", "docker", TRUE, TRUE, "ok"),
                  Package("php", "composer", TRUE, TRUE, "ok"),
                  Package("web", "npm", TRUE, TRUE, "ok")>>, FALSE, <<>>, {}),
          Setup(<<Package("lib", "python", FALSE, FALSE, "ok"),
                  Package("mod", "go", TRUE, TRUE, "ok")>>, FALSE, <<>>, {}) }

Modes == {"stable", "dev", "check"}

\* Readings of the clock, in half seconds.
Clock == {60}

RunInputs ==
    { [mode |-> m, dryRun |-> d, config |-> c, setup |-> k,
       history |-> h, mergedPRs |-> b, now |-> t] :
        m \in Modes, d \in BOOLEAN, c \in RunConfigs, k \in PackageSetups,
        h \in ReleaseHistories, b \in PRBatches, t \in Clock }

\* The outputs before setOutputs is called.
NoOutputs ==
    [set |-> FALSE, version |-> InvalidVersion, previousVersion |-> InvalidVersion,
     bumpType |-> "unset", releasedPackages |-> <<>>, skipped |-> FALSE,
     hasTag |-> FALSE, hasReleaseUrl |-> FALSE]

\* setOutputs(result)
setOutputs(version, previousVersion, bumpType, releasedPackages, skipped, tag, url) ==
    [set |-> TRUE, version |-> version, previousVersion |-> previousVersion,
     bumpType |-> bumpType, releasedPackages |-> releasedPackages,
     skipped |-> skipped, hasTag |-> tag, hasReleaseUrl |-> url]

\* What a run holds before its first statement.
NoLocals ==
    [pc |-> "idle", idx |-> 0, previousVersion |-> InvalidVersion, sinceDate |-> 0,
     recentPRs |-> <<>>, skip |-> FALSE, prerelease |-> "null",
     finalBumpType |-> "unset", newVersion |-> InvalidVersion,
     packages |-> <<>>, releaseOrder |-> <<>>, allVersionFiles |-> <<>>,
     releasedPackages |-> <<>>, releaseUrl |-> FALSE,
     listed |-> <<>>, cleanup |-> <<>>, warnings |-> <<>>, error |-> ""]

\* The repository, the hosting service and the registries, with the history
\* of mutating operations and of "[dry-run] Would ..." log lines.
World(history) ==
    [releases |-> history.releases, tags |-> history.tags, published |-> {},
     effects |-> <<>>, logs |-> <<>>]

\* Value of bumpResult before getBumpTypeFromLabels has returned.
NoBumpResult == [bumpType |-> "unset", skip |-> FALSE, prerelease |-> "unset"]

VARIABLES
    prs,            \* the batch of merged pull requests (their label lists)
    labelConfig,    \* config.labels
    releaseLabels,  \* result of extractReleaseLabels (empty before the call)
    bumpResult,     \* result of getBumpTypeFromLabels (NoBumpResult before the call)
    lpc             \* position of the label-resolution caller

labelVars == <<prs, labelConfig, releaseLabels, bumpResult, lpc>>

VARIABLES
    inputs,         \* action inputs, configuration and the state the run starts from
    world,          \* releases, tags, registries; mutations done and dry-run logs
    run,            \* the local variables of run() and its position
    outputs         \* the action outputs (NoOutputs until setOutputs)

runVars == <<inputs, world, run, outputs>>

VARIABLES
    twin            \* which run of a dry/real pair this is, and how the first ended

twinVars == <<twin>>

\* A single run, not one of a pair.
NoTwin == [phase |-> 1, first |-> [pc |-> "idle", outputs |-> NoOutputs, cleanup |-> <<>>]]

VARIABLES
    fs,             \* the Cargo.toml of each directory, from the top (0) down
    ctx,            \* the EcosystemContext of the crate: path, dryRun, lock file
    res             \* the last CargoEcosystem call: what it returned or threw

cargoVars == <<fs, ctx, res>>

\* The directories of the checkout: 0 is the working directory, each
\* directory holds the next.
Dirs == 0..2

NoFile == [exists |-> FALSE, lines |-> <<>>]

File(lines) == [exists |-> TRUE, lines |-> lines]

NoResult ==
    [op |-> "none", threw |-> FALSE, version |-> 0, files |-> <<>>,
     before |-> [d \in Dirs |-> NoFile]]

CargoIdle ==
    /\ fs = [d \in Dirs |-> NoFile]
    /\ ctx = [path |-> 0, dryRun |-> FALSE, lock |-> FALSE]
    /\ res = NoResult

VARIABLES
    look            \* findWorkspaceRoot in progress: its tree, locals and result

lookVars == <<look>>

NoLookup ==
    [pc |-> "idle", tree |-> <<>>, member |-> 0, dir |-> 0, i |-> 0,
     examined |-> 0, found |-> FALSE, result |-> 0]

LookupIdle == look = NoLookup

VARIABLES
    cln             \* a call of runCleanup: its arguments, the hosted and local
                    \* state it works on, its position and its CleanupResult

cleanVars == <<cln>>

\* The CleanupResult a call starts from.
EmptyResult ==
    [tagsDeleted |-> 0, releasesDeleted |-> 0, packagesUnpublished |-> 0,
     warnings |-> <<>>]

NoFailures ==
    [listReleases |-> FALSE, listTags |-> {}, release |-> {}, remote |-> {},
     local |-> {}, throws |-> {}, declines |-> {}]

NoCleanupRun ==
    [pc |-> "idle", idx |-> 0, dryRun |-> FALSE, enabled |-> FALSE,
     policy |-> [t \in {"dev", "alpha", "beta", "rc", "stable"} |-> NoCleanup],
     packages |-> <<>>, fails |-> NoFailures,
     given |-> [releases |-> <<>>, tags |-> {}],
     releases |-> <<>>, tags |-> {}, remote |-> {}, listed |-> <<>>,
     result |-> EmptyResult, attempts |-> <<>>, warned |-> <<>>]

CleanupIdle == cln = NoCleanupRun

VARIABLES
    mint            \* prerelease versions minted one after another: the clock,
                    \* the base version and suffix, and what was minted when

mintVars == <<mint>>

NoMint == [pc |-> "idle", now |-> 0, base |-> InvalidVersion, suffix |-> "dev",
           minted |-> <<>>, bumped |-> [type |-> "null", result |-> InvalidVersion]]

MintIdle == mint = NoMint

VARIABLES
    cls             \* the classification of one release: the configured tag
                    \* prefix, the tag and version texts, and the release type
                    \* found from each

clsVars == <<cls>>

NoClassification ==
    [pc |-> "idle", tagPrefix |-> <<>>, tagName |-> <<>>, version |-> <<>>,
     ofTag |-> "unset", ofVersion |-> "unset"]

ClassifyIdle == cls = NoClassification

\* What each component leaves alone: the variables of the others.
offLabels == <<runVars, twinVars, cargoVars, lookVars, cleanVars, mintVars, clsVars>>

offRun == <<labelVars, twinVars, cargoVars, lookVars, cleanVars, mintVars, clsVars>>

offCargo == <<labelVars, runVars, twinVars, lookVars, cleanVars, mintVars, clsVars>>

offLookup == <<labelVars, runVars, twinVars, cargoVars, cleanVars, mintVars, clsVars>>

offCleanup == <<labelVars, runVars, twinVars, cargoVars, lookVars, mintVars, clsVars>>

offMint == <<labelVars, runVars, twinVars, cargoVars, lookVars, cleanVars, clsVars>>

offClassify == <<labelVars, runVars, twinVars, cargoVars, lookVars, cleanVars, mintVars>>

vars == <<labelVars, runVars, twinVars, cargoVars, lookVars, cleanVars, mintVars, clsVars>>

RunIdle ==
    /\ inputs \in {CHOOSE i \in RunInputs : TRUE}
    /\ world = World(inputs.history)
    /\ run = NoLocals
    /\ outputs = NoOutputs
    /\ twin = NoTwin

LabelsIdle ==
    /\ prs = <<>>
    /\ labelConfig = DEFAULT_LABELS
    /\ releaseLabels = {}
    /\ bumpResult = NoBumpResult
    /\ lpc = "idle"

InitLabels ==
    /\ prs \in SeqsUpTo(PRLabelSets, MaxPRs)
    /\ labelConfig \in LabelConfigs
    /\ releaseLabels = {}
    /\ bumpResult = NoBumpResult
    /\ lpc = "start"
    /\ RunIdle /\ CargoIdle /\ LookupIdle /\ CleanupIdle /\ MintIdle /\ ClassifyIdle

\* const releaseLabels = extractReleaseLabels(recentPRs, config.labels)
ExtractLabels ==
    /\ lpc = "start"
    /\ releaseLabels' = extractReleaseLabels(prs, labelConfig)
    /\ lpc' = "extracted"
    /\ UNCHANGED <<prs, labelConfig, bumpResult, offLabels>>

\* const { bumpType, skip, prerelease } = getBumpTypeFromLabels(releaseLabels, config.labels)
ResolveBump ==
    /\ lpc = "extracted"
    /\ bumpResult' = getBumpTypeFromLabels(releaseLabels, labelConfig)
    /\ lpc' = "resolved"
    /\ UNCHANGED <<prs, labelConfig, releaseLabels, offLabels>>

NextLabels == ExtractLabels \/ ResolveBump

SpecLabels == InitLabels /\ [][NextLabels]_vars

HighestBumpLabelWins ==
    (lpc = "resolved" /\ labelConfig.skip \notin releaseLabels) =>
        /\ bumpResult.bumpType = "major" <=> labelConfig.major \in releaseLabels
        /\ bumpResult.bumpType = "minor" <=>
               (labelConfig.minor \in releaseLabels
                /\ labelConfig.major \notin releaseLabels)
        /\ bumpResult.bumpType = "patch" <=>
               (labelConfig.patch \in releaseLabels
                /\ {labelConfig.major, labelConfig.minor} \cap releaseLabels = {})
        /\ bumpResult.bumpType = "null" <=>
               {labelConfig.major, labelConfig.minor, labelConfig.patch}
                   \cap releaseLabels = {}

\* A set holding the patch and the minor label, without skip, resolved to minor.
HighestBumpLabelWinsWitness ==
    /\ lpc = "resolved"
    /\ labelConfig.skip \notin releaseLabels
    /\ {labelConfig.patch, labelConfig.minor} \subseteq releaseLabels
    /\ labelConfig.major \notin releaseLabels
    /\ bumpResult.bumpType = "minor"

(***************************************************************************)
(* getBumpTypeFromLabels on its own: applied to any list of label strings, *)
(* not only to those extractReleaseLabels returns.                         *)
(***************************************************************************)
LabelStrings ==
    {"release:major", "release:minor", "release:patch", "release:skip",
     "release:alpha", "release:beta", "release:rc", "bug"}

InitResolve ==
    /\ prs = <<>>
    /\ labelConfig \in LabelConfigs
    /\ releaseLabels \in SUBSET LabelStrings
    /\ bumpResult = NoBumpResult
    /\ lpc = "extracted"
    /\ RunIdle /\ CargoIdle /\ LookupIdle /\ CleanupIdle /\ MintIdle /\ ClassifyIdle

NextResolve == ResolveBump

SpecResolve == InitResolve /\ [][NextResolve]_vars

bumpLabels(config) == {config.major, config.minor, config.patch}

\* C21: when the label set handed to getBumpTypeFromLabels lacks the skip
\* label, the prerelease channel it returns is rc if the rc label is in the
\* set, else beta if the beta label is, else alpha if the alpha label is, and
\* null when none is; and the same channel is returned when the bump labels
\* of the set are replaced by any others that leave it without the skip label.
HighestChannelWins ==
    (lpc = "resolved" /\ labelConfig.skip \notin releaseLabels) =>
        /\ bumpResult.prerelease =
              (IF labelConfig.rc \in releaseLabels THEN "rc"
               ELSE IF labelConfig.beta \in releaseLabels THEN "beta"
               ELSE IF labelConfig.alpha \in releaseLabels THEN "alpha"
               ELSE "null")
        /\ \A bumps \in SUBSET bumpLabels(labelConfig) :
              LET others == (releaseLabels \ bumpLabels(labelConfig)) \cup bumps
              IN  labelConfig.skip \notin others =>
                    getBumpTypeFromLabels(others, labelConfig).prerelease =
                        bumpResult.prerelease

\* A set holding the alpha and the beta label and no bump label, resolved to
\* beta without a bump type.
HighestChannelWinsWitness ==
    /\ lpc = "resolved"
    /\ labelConfig.skip \notin releaseLabels
    /\ {labelConfig.alpha, labelConfig.beta} \subseteq releaseLabels
    /\ labelConfig.rc \notin releaseLabels
    /\ bumpResult.bumpType = "null"
    /\ bumpResult.prerelease = "beta"

(***************************************************************************)
(* main: run(), one action per awaited step.                               *)
(***************************************************************************)
config == inputs.config

Init ==
    /\ LabelsIdle /\ CargoIdle /\ LookupIdle /\ CleanupIdle /\ MintIdle /\ ClassifyIdle
    /\ inputs \in RunInputs
    /\ world = World(inputs.history)
    /\ run = [NoLocals EXCEPT !.pc = "start"]
    /\ outputs = NoOutputs
    /\ twin = NoTwin

effect(op, target) == [op |-> op, target |-> target]

\* A mutating operation behind a dry-run guard: performed, or replaced by
\* its "[dry-run] Would ..." line.
guarded(w, op, target) ==
    IF inputs.dryRun THEN [w EXCEPT !.logs = Append(@, effect(op, target))]
    ELSE [w EXCEPT !.effects = Append(@, effect(op, target))]

\* An awaited call rejects: run() is left through index.ts's catch.
thrown(where) == [run EXCEPT !.pc = "failed", !.error = where]

\* const releases = await gh.listReleases(); findLastStableRelease(...)
FindLastStable ==
    /\ run.pc = "start"
    /\ \E ok \in BOOLEAN :
         IF ~ok THEN run' = thrown("listReleases")
         ELSE LET last == findLastStableRelease(world.releases, config.prereleasePattern)
              IN  run' = [run EXCEPT
                    !.pc = "prs",
                    !.previousVersion =
                        IF last = 0 THEN Version(0, 0, 0, <<>>)
                        ELSE parseTagVersion(world.releases[last].tagName, config.tagPrefix),
                    !.sinceDate =
                        IF last = 0 THEN 0 ELSE world.releases[last].publishedAt]
    /\ UNCHANGED <<inputs, world, outputs, offRun>>

\* filterPRsSinceDate(prs, sinceDate): merged strictly after sinceDate
filterPRsSinceDate(batch, sinceDate) ==
    SelectSeq(batch, LAMBDA pr : pr.mergedAt > sinceDate)

\* const mergedPRs = await gh.listMergedPullRequests(); the early return
\* when nothing was merged and skipIfNoChanges is set
FindRecentPRs ==
    /\ run.pc = "prs"
    /\ \E ok \in BOOLEAN :
         IF ~ok THEN run' = thrown("listMergedPullRequests") /\ UNCHANGED outputs
         ELSE LET recent == filterPRsSinceDate(inputs.mergedPRs, run.sinceDate)
              IN  IF Len(recent) = 0 /\ config.skipIfNoChanges
                  THEN /\ run' = [run EXCEPT !.pc = "done", !.recentPRs = recent]
                       /\ outputs' = setOutputs(run.previousVersion, run.previousVersion,
                                                "patch", <<>>, TRUE, FALSE, FALSE)
                  ELSE /\ run' = [run EXCEPT !.pc = "labels", !.recentPRs = recent]
                       /\ UNCHANGED outputs
    /\ UNCHANGED <<inputs, world, offRun>>

\* recentPRs as the label lists extractReleaseLabels reads
labelLists(batch) == [i \in 1..Len(batch) |-> batch[i].labels]

\* setOutputs({version: previousVersion, previousVersion, bumpType: 'patch',
\* releasedPackages: [], skipped: true}) of the skip return, with a variant
\* that reports the version the run would have released.
skippedOutputsBumped(previousVersion) ==
    setOutputs(bumpVersion(previousVersion, "patch"), previousVersion, "patch",
               <<>>, TRUE, FALSE, FALSE)

skippedOutputs(previousVersion) ==
    setOutputs(previousVersion, previousVersion, "patch", <<>>, TRUE, FALSE, FALSE)

\* if (inputs.mode === 'check'), with a variant that takes the check return
\* only in a dry run.
checkModeWhenDry == inputs.mode = "check" /\ inputs.dryRun

checkMode == inputs.mode = "check"

\* extractReleaseLabels, getBumpTypeFromLabels, the early return on skip,
\* finalBumpType, bumpVersion, createDevVersion and the return of check mode
ComputeVersion ==
    /\ run.pc = "labels"
    /\ LET decision == getBumpTypeFromLabels(
                        extractReleaseLabels(labelLists(run.recentPRs), DEFAULT_LABELS),
                        DEFAULT_LABELS)
           final == IF decision.bumpType = "null" THEN config.defaultBump ELSE decision.bumpType
           base  == bumpVersion(run.previousVersion, final)
           next  == IF decision.prerelease # "null"
                    THEN createDevVersion(base, decision.prerelease, inputs.now)
                    ELSE IF inputs.mode = "dev" /\ config.devRelease
                    THEN createDevVersion(base, config.devSuffix, inputs.now)
                    ELSE base
       IN  IF decision.skip
           THEN /\ run' = [run EXCEPT !.pc = "done", !.skip = TRUE]
                /\ outputs' = skippedOutputs(run.previousVersion)
           ELSE IF ~isValid(base)
           THEN /\ run' = [thrown("bumpVersion") EXCEPT !.finalBumpType = final]
                /\ UNCHANGED outputs
           ELSE IF checkMode
           THEN /\ run' = [run EXCEPT !.pc = "done", !.prerelease = decision.prerelease,
                                       !.finalBumpType = final, !.newVersion = next]
                /\ outputs' = setOutputs(next, run.previousVersion, final, <<>>,
                                         FALSE, FALSE, FALSE)
           ELSE /\ run' = [run EXCEPT !.pc = "packages", !.prerelease = decision.prerelease,
                                       !.finalBumpType = final, !.newVersion = next]
                /\ UNCHANGED outputs
    /\ UNCHANGED <<inputs, world, offRun>>

\* DeterminePackages with the packages taken in the order of config.packages,
\* whatever config.releaseOrder says
DeterminePackagesInConfigOrder ==
    /\ run.pc = "packages"
    /\ LET pkgs  == IF Len(inputs.setup.packages) = 0
                    THEN <<Package("root", detect(inputs.setup.cwd), TRUE, TRUE, "ok")>>
                    ELSE inputs.setup.packages
           order == [i \in 1..Len(pkgs) |-> pkgs[i].name]
       IN  run' = [run EXCEPT !.pc = "gituser", !.packages = pkgs, !.releaseOrder = order]
    /\ UNCHANGED <<inputs, world, outputs, offRun>>

\* packages = config.packages, or the auto-detected root package; releaseOrder
DeterminePackages ==
    /\ run.pc = "packages"
    /\ LET pkgs  == IF Len(inputs.setup.packages) = 0
                    THEN <<Package("root", detect(inputs.setup.cwd), TRUE, TRUE, "ok")>>
                    ELSE inputs.setup.packages
           order == IF inputs.setup.hasOrder THEN inputs.setup.releaseOrder
                    ELSE [i \in 1..Len(pkgs) |-> pkgs[i].name]
       IN  run' = [run EXCEPT !.pc = "gituser", !.packages = pkgs, !.releaseOrder = order]
    /\ UNCHANGED <<inputs, world, outputs, offRun>>

\* await configureGitUser(gitOptions)
ConfigureGitUser ==
    /\ run.pc = "gituser"
    /\ \E ok \in BOOLEAN :
         IF inputs.dryRun \/ ok
         THEN /\ world' = guarded(world, "configureGitUser", "")
              /\ run' = [run EXCEPT !.pc = "update", !.idx = 1]
         ELSE /\ run' = thrown("configureGitUser")
              /\ UNCHANGED world
    /\ UNCHANGED <<inputs, outputs, offRun>>

\* ecosystem.writeVersion(ctx, version): npm, cargo, python and composer read
\* the manifest before rewriting it, custom creates its file when absent; all
\* of them return before touching a file in a dry run.  docker and go only log.
writeVersion(w, pkg) ==
    IF pkg.ecosystem \in {"docker", "go"} THEN w
    ELSE guarded(w, "writeVersion", pkg.name)

\* writeVersion rejects: a real run cannot read a missing manifest
writeVersionThrows(pkg) ==
    ~inputs.dryRun /\ writesManifest(pkg.ecosystem) /\ pkg.manifest = "missing"

\* One iteration of `for (const pkgName of releaseOrder)`: writeVersion,
\* postVersionUpdate, getVersionFiles, releasedPackages.push
UpdatePackage ==
    /\ run.pc = "update"
    /\ run.idx <= Len(run.releaseOrder)
    /\ LET i   == find(run.packages, run.releaseOrder[run.idx])
           pkg == run.packages[i]
       IN  IF i = 0
           THEN /\ run' = [run EXCEPT !.idx = @ + 1,
                                      !.warnings = Append(@, "Package not found")]
                /\ UNCHANGED world
           ELSE IF ~pkg.updateVersionFile
           THEN /\ run' = [run EXCEPT !.idx = @ + 1,
                                      !.releasedPackages = Append(@, pkg.name)]
                /\ UNCHANGED world
           ELSE IF writeVersionThrows(pkg)
           THEN /\ run' = thrown("writeVersion")
                /\ UNCHANGED world
           ELSE \E hookOk \in BOOLEAN :
                  LET written == writeVersion(world, pkg)
                  IN  IF ~hasPostVersionUpdate(pkg.ecosystem)
                      THEN /\ world' = written
                           /\ run' = [run EXCEPT !.idx = @ + 1,
                                        !.allVersionFiles = Append(@, pkg.name),
                                        !.releasedPackages = Append(@, pkg.name)]
                      ELSE IF inputs.dryRun \/ hookOk
                      THEN /\ world' = guarded(written, "postVersionUpdate", pkg.name)
                           /\ run' = [run EXCEPT !.idx = @ + 1,
                                        !.allVersionFiles = Append(@, pkg.name),
                                        !.releasedPackages = Append(@, pkg.name)]
                      ELSE /\ world' = written
                           /\ run' = thrown("postVersionUpdate")
    /\ UNCHANGED <<inputs, outputs, offRun>>

\* const releaseType = prerelease ? prerelease : mode === 'dev' ? 'dev' : 'stable'
releaseType ==
    IF run.prerelease # "null" THEN run.prerelease
    ELSE IF inputs.mode = "dev" THEN "dev"
    ELSE "stable"

\* updateVersionFiles(config.versionFiles.files, newVersion, gitOptions) when
\* enabled for this release type, then updateChangelog when enabled.  Neither
\* throws: a file that cannot be updated yields a warning.
UpdateFiles ==
    /\ run.pc = "update"
    /\ run.idx > Len(run.releaseOrder)
    /\ \E refsUpdated \in BOOLEAN, logUpdated \in BOOLEAN :
         LET w1 == IF config.versionFiles /\ refsUpdated
                   THEN guarded(world, "updateVersionFile", "") ELSE world
             f1 == IF config.versionFiles /\ refsUpdated
                   THEN Append(run.allVersionFiles, "versionFiles")
                   ELSE run.allVersionFiles
             n1 == IF config.versionFiles /\ ~refsUpdated
                   THEN Append(run.warnings, "Failed to update file") ELSE run.warnings
             w2 == IF config.changelog /\ logUpdated
                   THEN guarded(w1, "updateChangelog", "") ELSE w1
             f2 == IF config.changelog /\ logUpdated THEN Append(f1, "changelog") ELSE f1
             n2 == IF config.changelog /\ ~logUpdated
                   THEN Append(n1, "Failed to update changelog") ELSE n1
         IN  /\ world' = w2
             /\ run' = [run EXCEPT !.pc = "commit", !.allVersionFiles = f2,
                                   !.warnings = n2]
    /\ UNCHANGED <<inputs, outputs, offRun>>

\* stageFiles(allVersionFiles) and createCommit(message) when there are
\* files and pushVersionCommit is set
StageAndCommit ==
    /\ run.pc = "commit"
    /\ IF Len(run.allVersionFiles) > 0 /\ config.pushVersionCommit
       THEN \E done \in 0..2 :
              LET staged == guarded(world, "stageFiles", "")
              IN  IF inputs.dryRun \/ done = 2
                  THEN /\ world' = guarded(staged, "createCommit", "")
                       /\ run' = [run EXCEPT !.pc = "tag"]
                  ELSE /\ world' = (IF done = 1 THEN staged ELSE world)
                       /\ run' = thrown(IF done = 1 THEN "createCommit" ELSE "stageFiles")
       ELSE /\ run' = [run EXCEPT !.pc = "tag"]
            /\ UNCHANGED world
    /\ UNCHANGED <<inputs, outputs, offRun>>

\* const tag = formatTag(config.git.tagPrefix, newVersion)
tag == formatTag(config.tagPrefix, run.newVersion)

\* createTag with its failure swallowed: the run goes on without the tag
CreateTagBestEffort ==
    /\ run.pc = "tag"
    /\ IF ~config.pushTag
       THEN /\ run' = [run EXCEPT !.pc = "push"]
            /\ UNCHANGED world
       ELSE IF inputs.dryRun
       THEN /\ world' = guarded(world, "createTag", "")
            /\ run' = [run EXCEPT !.pc = "push"]
       ELSE \E ok \in BOOLEAN :
              IF ok /\ tag \notin world.tags
              THEN /\ world' = [guarded(world, "createTag", "") EXCEPT
                                   !.tags = @ \cup {tag}]
                   /\ run' = [run EXCEPT !.pc = "push"]
              ELSE /\ run' = [run EXCEPT !.pc = "push"]
                   /\ UNCHANGED world
    /\ UNCHANGED <<inputs, outputs, offRun>>

\* createTag(tag, message) when pushTag is set; git refuses a tag that exists
CreateTag ==
    /\ run.pc = "tag"
    /\ IF ~config.pushTag
       THEN /\ run' = [run EXCEPT !.pc = "push"]
            /\ UNCHANGED world
       ELSE IF inputs.dryRun
       THEN /\ world' = guarded(world, "createTag", "")
            /\ run' = [run EXCEPT !.pc = "push"]
       ELSE \E ok \in BOOLEAN :
              IF ok /\ tag \notin world.tags
              THEN /\ world' = [guarded(world, "createTag", "") EXCEPT
                                   !.tags = @ \cup {tag}]
                   /\ run' = [run EXCEPT !.pc = "push"]
              ELSE /\ run' = thrown("createTag")
                   /\ UNCHANGED world
    /\ UNCHANGED <<inputs, outputs, offRun>>

\* pushToRemote(gitOptions, pushTag) when pushVersionCommit or pushTag is set
PushToRemote ==
    /\ run.pc = "push"
    /\ IF ~(config.pushVersionCommit \/ config.pushTag)
       THEN /\ run' = [run EXCEPT !.pc = "floating"]
            /\ UNCHANGED world
       ELSE \E ok \in BOOLEAN :
              IF inputs.dryRun \/ ok
              THEN /\ world' = guarded(world, "pushToRemote", "")
                   /\ run' = [run EXCEPT !.pc = "floating"]
              ELSE /\ run' = thrown("pushToRemote")
                   /\ UNCHANGED world
    /\ UNCHANGED <<inputs, outputs, offRun>>

\* updateFloatingTags(newVersion, tagPrefix) when floatingTags and pushTag are
\* set and the mode is stable: the major tag is moved and pushed, then the
\* minor tag; `moved` is how many the git commands got through.
UpdateFloatingTags ==
    /\ run.pc = "floating"
    /\ IF ~(config.floatingTags /\ config.pushTag /\ inputs.mode = "stable")
       THEN /\ run' = [run EXCEPT !.pc = "release"]
            /\ UNCHANGED world
       ELSE IF inputs.dryRun
       THEN /\ world' = guarded(world, "updateFloatingTags", "")
            /\ run' = [run EXCEPT !.pc = "release"]
       ELSE \E moved \in 0..2 :
              LET majorTag == FloatingTag(config.tagPrefix, run.newVersion, 1)
                  minorTag == FloatingTag(config.tagPrefix, run.newVersion, 2)
                  w1 == IF moved >= 1
                        THEN [guarded(world, "updateFloatingTags", "major") EXCEPT
                                 !.tags = @ \cup {majorTag}]
                        ELSE world
                  w2 == IF moved >= 2
                        THEN [guarded(w1, "updateFloatingTags", "minor") EXCEPT
                                 !.tags = @ \cup {minorTag}]
                        ELSE w1
              IN  /\ world' = w2
                  /\ run' = IF moved = 2 THEN [run EXCEPT !.pc = "release"]
                            ELSE thrown("updateFloatingTags")
    /\ UNCHANGED <<inputs, outputs, offRun>>

\* gh.createRelease({tagName: tag, prerelease: mode === 'dev'}) when
\* githubRelease.enabled && !dryRun; a dry run passes by without a line.
CreateRelease ==
    /\ run.pc = "release"
    /\ IF ~(config.githubRelease /\ ~inputs.dryRun)
       THEN /\ run' = [run EXCEPT !.pc = "publish", !.idx = 1]
            /\ UNCHANGED world
       ELSE \E ok \in BOOLEAN :
              IF ok
              THEN /\ world' = [world EXCEPT
                        !.effects = Append(@, effect("createRelease", "")),
                        !.releases = <<Release(Len(@) + 1, tag, inputs.now,
                                               inputs.mode = "dev")>> \o @]
                   /\ run' = [run EXCEPT !.pc = "publish", !.idx = 1,
                                         !.releaseUrl = TRUE]
              ELSE /\ run' = thrown("createRelease")
                   /\ UNCHANGED world
    /\ UNCHANGED <<inputs, outputs, offRun>>

\* ecosystem.publish(ctx) as main calls it, with no docker settings and no
\* publishCommand in ctx: "throws", "nothing" or "guarded"
publishKind(eco) ==
    IF eco = "docker" THEN "throws"
    ELSE IF eco = "custom" THEN "nothing"
    ELSE "guarded"

\* `await ecosystem.publish(ctx)` rejects.  The call stands in no try block,
\* so run() is left; the variant catches, warns and goes on to the next package.
publishCaught ==
    [run EXCEPT !.idx = @ + 1, !.warnings = Append(@, "Failed to publish")]

publishRejected == thrown("publish")

\* One iteration of the publish loop.
PublishPackage ==
    /\ run.pc = "publish"
    /\ config.publish
    /\ run.idx <= Len(run.releaseOrder)
    /\ LET i   == find(run.packages, run.releaseOrder[run.idx])
           pkg == run.packages[i]
           next == [run EXCEPT !.idx = @ + 1]
       IN  IF i = 0 \/ ~pkg.publish \/ ~hasPublish(pkg.ecosystem)
              \/ publishKind(pkg.ecosystem) = "nothing"
           THEN run' = next /\ UNCHANGED world
           ELSE IF publishKind(pkg.ecosystem) = "throws"
           THEN run' = publishRejected /\ UNCHANGED world
           ELSE IF inputs.dryRun
           THEN run' = next /\ world' = guarded(world, "publish", pkg.name)
           ELSE \E ok \in BOOLEAN :
                  IF ok
                  THEN /\ run' = next
                       /\ world' = [guarded(world, "publish", pkg.name) EXCEPT
                             !.published = @ \cup {<<pkg.name, run.newVersion>>}]
                  ELSE run' = publishRejected /\ UNCHANGED world
    /\ UNCHANGED <<inputs, outputs, offRun>>

\* The publish loop is over, or publish is disabled: runCleanup is entered
\* when cleanup is enabled, and fetches the releases once.
StartCleanup ==
    /\ run.pc = "publish"
    /\ ~config.publish \/ run.idx > Len(run.releaseOrder)
    /\ IF ~config.cleanup.enabled
       THEN run' = [run EXCEPT !.pc = "cleanup", !.idx = Len(ReleaseTypes) + 1]
       ELSE \E ok \in BOOLEAN :
              IF ok THEN run' = [run EXCEPT !.pc = "cleanup", !.idx = 1,
                                            !.listed = world.releases]
              ELSE run' = thrown("listReleases")
    /\ UNCHANGED <<inputs, world, outputs, offRun>>

\* The same guarded operation once for each element of a list.
RECURSIVE guardedEach(_, _, _, _)
guardedEach(w, op, target, n) ==
    IF n = 0 THEN w ELSE guardedEach(guarded(w, op, target), op, target, n - 1)

\* The releases of `rels` whose id is in `ids`, in order.
withIds(rels, ids) == SelectSeq(rels, LAMBDA r : r.id \in ids)

\* The packages whose ecosystem can unpublish, and those for which
\* cleanupReleaseType warns that it cannot.
unpublishable(pkgs) == SelectSeq(pkgs, LAMBDA p : hasUnpublish(p.ecosystem))

unsupported(pkgs) ==
    SelectSeq(pkgs, LAMBDA p : p.ecosystem \in {"cargo", "go", "composer", "custom"})

\* cleanupReleaseType(gh, releases, releaseType, typeConfig, tagPrefix, options)
\* for the next release type.  A release whose deletion the service refuses
\* and a package that cannot be unpublished yield a warning; listing the tags
\* stands in no try block.
CleanupType ==
    /\ run.pc = "cleanup"
    /\ run.idx <= Len(ReleaseTypes)
    /\ LET type   == ReleaseTypes[run.idx]
           policy == config.cleanup[type]
           relSel == IF policy.releases
                     THEN getReleasesToCleanup(run.listed, type, policy.keep) ELSE <<>>
           tagSel == IF policy.tags
                     THEN getTagsToCleanup(getTagsForType(world.tags, type), policy.keep)
                     ELSE <<>>
           pubSel == IF policy.published
                     THEN getReleasesToCleanup(run.listed, type, policy.keep) ELSE <<>>
           relIds == {relSel[i].id : i \in 1..Len(relSel)}
           tagSet == {tagSel[i] : i \in 1..Len(tagSel)}
           nUnpub == Len(pubSel) * Len(unpublishable(run.packages))
           selection == [type |-> type, releases |-> relSel, tags |-> tagSel,
                         published |-> pubSel]
       IN  \E refused \in SUBSET relIds, tagsListed \in BOOLEAN, unpublished \in BOOLEAN :
             LET deleted == IF inputs.dryRun THEN {} ELSE relIds \ refused
                 w1 == [guardedEach(world, "deleteRelease", type,
                           IF inputs.dryRun THEN Len(relSel) ELSE Cardinality(deleted))
                        EXCEPT !.releases = SelectSeq(@, LAMBDA r : r.id \notin deleted)]
                 w2 == [guardedEach(w1, "deleteTag", type, Len(tagSel))
                        EXCEPT !.tags = IF inputs.dryRun THEN @ ELSE @ \ tagSet]
                 w3 == IF inputs.dryRun \/ unpublished
                       THEN guardedEach(w2, "unpublish", type, nUnpub) ELSE w2
                 warn1 == IF ~inputs.dryRun /\ refused # {}
                          THEN <<"Failed to delete release">> ELSE <<>>
                 warn2 == IF ~inputs.dryRun /\ ~unpublished /\ nUnpub > 0
                          THEN <<"Failed to unpublish">> ELSE <<>>
                 warn3 == IF Len(pubSel) > 0 /\ Len(unsupported(run.packages)) > 0
                          THEN <<"does not support unpublishing">> ELSE <<>>
             IN  IF policy.tags /\ ~tagsListed
                 THEN /\ world' = w1
                      /\ run' = [thrown("getTagsForType") EXCEPT
                                   !.warnings = @ \o warn1]
                 ELSE /\ world' = w3
                      /\ run' = [run EXCEPT !.idx = @ + 1,
                                   !.cleanup = Append(@, selection),
                                   !.warnings = @ \o warn1 \o warn2 \o warn3]
    /\ UNCHANGED <<inputs, outputs, offRun>>

\* setOutputs({version, previousVersion, bumpType, releasedPackages,
\* skipped: false, releaseUrl, tag}) at the end of run()
Finish ==
    /\ run.pc = "cleanup"
    /\ run.idx > Len(ReleaseTypes)
    /\ run' = [run EXCEPT !.pc = "done"]
    /\ outputs' = setOutputs(run.newVersion, run.previousVersion, run.finalBumpType,
                             run.releasedPackages, FALSE, TRUE, run.releaseUrl)
    /\ UNCHANGED <<inputs, world, offRun>>

Next ==
    \/ FindLastStable
    \/ FindRecentPRs
    \/ ComputeVersion
    \/ DeterminePackages
    \/ ConfigureGitUser
    \/ UpdatePackage
    \/ UpdateFiles
    \/ StageAndCommit
    \/ CreateTag
    \/ PushToRemote
    \/ UpdateFloatingTags
    \/ CreateRelease
    \/ PublishPackage
    \/ StartCleanup
    \/ CleanupType
    \/ Finish

Spec == Init /\ [][Next]_vars

(***************************************************************************)
(* A dry run followed by a real run on the same inputs and the same        *)
(* repository and release state.                                           *)
(***************************************************************************)
\* The configurations a pair of runs is started with.
TwinConfigs ==
    {FullConfig, DefaultConfig, [FullConfig EXCEPT !.skipIfNoChanges = TRUE]}

InitTwin == Init /\ inputs.dryRun /\ inputs.config \in TwinConfigs

\* The dry run is over: the action is started again without dry-run, on the
\* state the dry run started from.
StartReal ==
    /\ twin.phase = 1
    /\ inputs.dryRun
    /\ run.pc \in {"done", "failed"}
    /\ twin' = [phase |-> 2,
                first |-> [pc |-> run.pc, outputs |-> outputs, cleanup |-> run.cleanup]]
    /\ inputs' = [inputs EXCEPT !.dryRun = FALSE]
    /\ world' = World(inputs.history)
    /\ run' = [NoLocals EXCEPT !.pc = "start"]
    /\ outputs' = NoOutputs
    /\ UNCHANGED <<labelVars, cargoVars, lookVars, cleanVars, mintVars, clsVars>>

NextTwin == Next \/ StartReal

SpecTwin == InitTwin /\ [][NextTwin]_vars

\* C5 as stated: for the same inputs and the same repository and release
\* state, a dry run and a real run that both complete produce the same
\* previous version, bump type, next version, skip decision and released
\* packages, and select the same artifacts for cleanup.
DryRunSameDecisions ==
    (twin.phase = 2 /\ twin.first.pc = "done" /\ run.pc = "done") =>
        /\ outputs.previousVersion = twin.first.outputs.previousVersion
        /\ outputs.bumpType = twin.first.outputs.bumpType
        /\ outputs.version = twin.first.outputs.version
        /\ outputs.skipped = twin.first.outputs.skipped
        /\ outputs.releasedPackages = twin.first.outputs.releasedPackages
        /\ run.cleanup = twin.first.cleanup

\* The repository, the releases and the registries are as the run found them.
Untouched ==
    /\ world.effects = <<>>
    /\ world.releases = inputs.history.releases
    /\ world.tags = inputs.history.tags
    /\ world.published = {}

\* The operations of the history of effects, and of the dry-run lines.
done(op) == \E i \in 1..Len(world.effects) : world.effects[i].op = op

logged(op) == \E i \in 1..Len(world.logs) : world.logs[i].op = op

\* C2: whenever label resolution yields skip = TRUE the run ends normally,
\* having performed no version write, commit, tag, push, release creation,
\* publish or cleanup, and reports skipped = TRUE with the output version
\* equal to the previous stable version.
SkipEndsRunUntouched ==
    run.skip =>
        /\ run.pc = "done"
        /\ Untouched
        /\ world.logs = <<>>
        /\ run.cleanup = <<>>
        /\ outputs.set /\ outputs.skipped
        /\ outputs.version = run.previousVersion
        /\ outputs.previousVersion = run.previousVersion
        /\ outputs.releasedPackages = <<>>

\* A real stable run over a history with a stable release has ended on the
\* skip label carried by all of its recent PRs.
SkipEndsRunWitness ==
    /\ run.skip /\ run.pc = "done"
    /\ ~inputs.dryRun /\ inputs.mode = "stable"
    /\ Len(run.recentPRs) > 0
    /\ outputs.version = Version(1, 4, 2, <<>>)
    /\ Len(inputs.setup.packages) > 0

\* The packages of the release order, from position `from` on, whose publish
\* main would call and which publish to a registry.
publishable(from) ==
    {run.packages[find(run.packages, run.releaseOrder[j])].name :
        j \in {k \in from..Len(run.releaseOrder) :
                 LET i == find(run.packages, run.releaseOrder[k])
                 IN  /\ i # 0
                     /\ run.packages[i].publish
                     /\ hasPublish(run.packages[i].ecosystem)
                     /\ publishKind(run.packages[i].ecosystem) # "nothing"}}

DryRunLogsEveryMutation ==
    inputs.dryRun =>
        /\ Untouched
        /\ (run.pc = "publish" /\ config.githubRelease) => logged("createRelease")

\* C6: in check mode the run reports the computed next version, the previous
\* version and the bump type, and returns without any change (no file write,
\* git configuration, commit, tag, push, release, publish or cleanup),
\* whatever the dry-run flag.
CheckModeChangesNothing ==
    inputs.mode = "check" =>
        /\ Untouched
        /\ world.logs = <<>>
        /\ run.cleanup = <<>>
        /\ run.pc \in {"start", "prs", "labels", "done", "failed"}
        /\ (run.pc = "done" /\ ~outputs.skipped) =>
              /\ outputs.set
              /\ outputs.previousVersion = run.previousVersion
              /\ outputs.bumpType \in {"major", "minor", "patch"}
              /\ bumpVersion(outputs.previousVersion, outputs.bumpType) =
                    [outputs.version EXCEPT !.pre = <<>>]
              /\ outputs.releasedPackages = <<>>

\* A check run without the dry-run flag has reported 1.5.0 after 1.4.2.
CheckModeWitness ==
    /\ inputs.mode = "check" /\ ~inputs.dryRun
    /\ run.pc = "done" /\ ~outputs.skipped
    /\ outputs.previousVersion = Version(1, 4, 2, <<>>)
    /\ outputs.bumpType = "minor"
    /\ outputs.version = Version(1, 5, 0, <<>>)
    /\ Len(inputs.setup.packages) > 0

\* The declared release order: config.releaseOrder, or the packages in the
\* order of their declaration.
declaredOrder ==
    IF inputs.setup.hasOrder THEN inputs.setup.releaseOrder
    ELSE IF Len(inputs.setup.packages) = 0 THEN <<"root">>
    ELSE [i \in 1..Len(inputs.setup.packages) |-> inputs.setup.packages[i].name]

\* The place of a package in the declared order.
placeOf(name) == CHOOSE i \in 1..Len(declaredOrder) : declaredOrder[i] = name

\* The operations of a phase occur in a history package after package, in
\* the declared order: none on a package once one on a later package is there.
inDeclaredOrder(history, phase) ==
    \A i, j \in 1..Len(history) :
        (i < j /\ history[i].op \in phase /\ history[j].op \in phase) =>
            /\ \E k \in 1..Len(declaredOrder) : declaredOrder[k] = history[i].target
            /\ \E k \in 1..Len(declaredOrder) : declaredOrder[k] = history[j].target
            /\ placeOf(history[i].target) <= placeOf(history[j].target)

\* C23: the packages are processed in the declared release order, one at a
\* time: in the version-update phase and in the publish phase the operations
\* on a package all come before those on the packages after it in the order,
\* and the loop holds one position of the order at any moment.
PackagesInReleaseOrder ==
    /\ inDeclaredOrder(world.effects, {"writeVersion", "postVersionUpdate"})
    /\ inDeclaredOrder(world.effects, {"publish"})
    /\ inDeclaredOrder(world.logs, {"writeVersion", "postVersionUpdate"})
    /\ inDeclaredOrder(world.logs, {"publish"})
    /\ \A i \in 1..Len(run.releasedPackages) :
          \A j \in 1..Len(run.releasedPackages) :
              i < j => placeOf(run.releasedPackages[i]) < placeOf(run.releasedPackages[j])
    /\ run.pc \in {"update", "publish"} => run.idx \in 1..(Len(declaredOrder) + 1)

\* A real run whose release order is cli, ghost, core over the packages core
\* and cli has written and published cli before core.
PackagesInReleaseOrderWitness ==
    /\ ~inputs.dryRun
    /\ inputs.setup.hasOrder
    /\ inputs.setup.releaseOrder = <<"cli", "ghost", "core">>
    /\ run.releasedPackages = <<"cli", "core">>
    /\ \E i, j \in 1..Len(world.effects) :
          /\ i < j
          /\ world.effects[i] = effect("publish", "cli")
          /\ world.effects[j] = effect("publish", "core")
    /\ \E i, j \in 1..Len(world.effects) :
          /\ i < j
          /\ world.effects[i] = effect("postVersionUpdate", "cli")
          /\ world.effects[j] = effect("writeVersion", "core")

\* C25: the floating major and minor tags are created or moved only for a
\* stable release: a run whose next version carries a prerelease suffix
\* (dev, alpha, beta or rc) neither moves them nor, in a dry run, announces
\* that it would.
FloatingTagsOnlyForStable ==
    run.newVersion.pre # <<>> =>
        /\ ~done("updateFloatingTags")
        /\ ~logged("updateFloatingTags")
        /\ \A t \in world.tags : t.parts = 3

\* The step of run() an operation belongs to, in the order of the steps.
stepOf(op) ==
    CASE op = "configureGitUser" -> 0
      [] op \in {"writeVersion", "postVersionUpdate", "updateVersionFile",
                 "updateChangelog"} -> 1
      [] op \in {"stageFiles", "createCommit"} -> 2
      [] op = "createTag" -> 3
      [] op = "pushToRemote" -> 4
      [] op = "updateFloatingTags" -> 5
      [] op = "createRelease" -> 6
      [] op = "publish" -> 7
      [] op \in {"deleteRelease", "deleteTag", "unpublish"} -> 8

\* The operations of a history follow the order of the steps.
inStepOrder(history) ==
    \A i, j \in 1..Len(history) :
        i < j => stepOf(history[i].op) <= stepOf(history[j].op)

\* The run has performed an operation of step n or of a later step.
beyond(n) == \E i \in 1..Len(world.effects) : stepOf(world.effects[i].op) >= n

\* An operation `first` was performed before an operation `then`.
precedes(first, then) ==
    \E i, j \in 1..Len(world.effects) :
        i < j /\ world.effects[i].op = first /\ world.effects[j].op = then

\* Every package the publish loop is to publish has been published.
allPublished ==
    \A k \in 1..Len(run.releaseOrder) :
        LET i == find(run.packages, run.releaseOrder[k])
        IN  (i # 0 /\ run.packages[i].publish
             /\ hasPublish(run.packages[i].ecosystem)
             /\ publishKind(run.packages[i].ecosystem) # "nothing")
            => <<run.packages[i].name, run.newVersion>> \in world.published

\* C26: the operations of a run occur in the order version writes, commit,
\* tag creation, push, hosted-release creation, publish, cleanup, and an
\* operation of a step is performed only when every enabled step before it
\* has completed; in particular, with tagging enabled nothing is published
\* and nothing is deleted by cleanup unless the tag was created and pushed.
StepsInFixedOrder ==
    /\ inStepOrder(world.effects)
    /\ inStepOrder(world.logs)
    /\ ~inputs.dryRun =>
          /\ (beyond(3) /\ Len(run.allVersionFiles) > 0 /\ config.pushVersionCommit)
                => done("stageFiles") /\ done("createCommit")
          /\ (beyond(4) /\ config.pushTag) => done("createTag")
          /\ (beyond(5) /\ (config.pushVersionCommit \/ config.pushTag))
                => done("pushToRemote")
          /\ (beyond(7) /\ config.githubRelease) => done("createRelease")
          /\ (beyond(8) /\ config.publish) => allPublished
          /\ (beyond(7) /\ config.pushTag) =>
                /\ done("createTag") /\ done("pushToRemote")
                /\ precedes("createTag", "pushToRemote")

\* A real run has written, committed, tagged, pushed, created the release,
\* published and deleted an old release, in that order.
StepsInFixedOrderWitness ==
    /\ ~inputs.dryRun
    /\ precedes("writeVersion", "createCommit")
    /\ precedes("createCommit", "createTag")
    /\ precedes("createTag", "pushToRemote")
    /\ precedes("pushToRemote", "createRelease")
    /\ precedes("createRelease", "publish")
    /\ precedes("publish", "deleteRelease")

\* Some pull request of the batch being released carries the label.
batchCarries(label) ==
    \E i \in 1..Len(run.recentPRs) : label \in run.recentPRs[i].labels

HighestLabelOfBatch ==
    /\ inputs.mode = "stable"
    /\ run.previousVersion = Version(1, 4, 2, <<>>)
    /\ batchCarries("release:major") /\ batchCarries("release:patch")
    /\ run.newVersion = Version(2, 0, 0, <<>>)

(***************************************************************************)
(* ecosystems/cargo: Cargo.toml texts and the regular expressions read on  *)
(* them.  A manifest is the sequence of its lines; a line is a table       *)
(* header ("[package]", "[workspace.package]", "[workspace.dependencies]", *)
(* "[table]" for any other), or a key: "version" (version = "<value>"),    *)
(* "inherit" (version.workspace = true), "rust-inherit"                    *)
(* (rust-version.workspace = true), "array" (a key whose value is written  *)
(* with a '[', as authors = ["..."]), "dep" (an inline table with both     *)
(* version = "<value>" and path = "..."), "key" (any other key).           *)
(* Version values are positive numbers; 0 stands for null.                 *)
(***************************************************************************)
Line(kind, value) == [kind |-> kind, value |-> value]

\* The line starts with '[' (trimmed.startsWith('[')).
isHeader(line) ==
    line.kind \in {"[package]", "[workspace.package]", "[workspace.dependencies]", "[table]"}

\* The line holds a '[' character, which [^[]* cannot cross.
hasBracket(line) == isHeader(line) \/ line.kind = "array"

\* content.includes(header)
includes(lines, header) == \E i \in 1..Len(lines) : lines[i].kind = header

\* The line where /header[^[]* ... /s ends its match, the tail of the pattern
\* matching the lines of `kinds`: the first header that has a match, and from
\* it the furthest such line reached without crossing a '['.  0 when the
\* pattern does not match.
matchLine(lines, header, kinds) ==
    LET ends(i) == {j \in (i + 1)..Len(lines) :
                      /\ lines[j].kind \in kinds
                      /\ \A k \in (i + 1)..(j - 1) : ~hasBracket(lines[k])}
        starts  == {i \in 1..Len(lines) : lines[i].kind = header /\ ends(i) # {}}
    IN  IF starts = {} THEN 0
        ELSE LET i == CHOOSE a \in starts : \A b \in starts : a <= b
             IN  CHOOSE j \in ends(i) : \A k \in ends(i) : k <= j

\* usesWorkspaceInheritance(content)
usesWorkspaceInheritance(lines) ==
    /\ matchLine(lines, "[package]", {"inherit", "rust-inherit"}) # 0
    /\ ~includes(lines, "[workspace.package]")

\* extractWorkspaceVersion(content)
extractWorkspaceVersion(lines) ==
    LET j == matchLine(lines, "[workspace.package]", {"version"})
    IN  IF j = 0 THEN 0 ELSE lines[j].value

\* extractPackageVersion(content)
extractPackageVersion(lines) ==
    IF usesWorkspaceInheritance(lines) THEN extractWorkspaceVersion(lines)
    ELSE LET j == matchLine(lines, "[package]", {"version"})
         IN  IF j = 0 THEN 0 ELSE lines[j].value

\* parseVersion(content)
parseVersion(lines) ==
    IF extractWorkspaceVersion(lines) # 0 THEN extractWorkspaceVersion(lines)
    ELSE extractPackageVersion(lines)

\* updateWorkspaceDependencyVersions without the section tracking: every
\* inline table with a version and a path is rewritten
updateEveryDependencyVersion(lines, version) ==
    [k \in 1..Len(lines) |->
        IF lines[k].kind = "dep" THEN Line("dep", version) ELSE lines[k]]

\* updateWorkspaceDependencyVersions(content, version)
updateWorkspaceDependencyVersions(lines, version) ==
    LET section(k) ==
            LET heads == {h \in 1..(k - 1) : isHeader(lines[h])}
            IN  IF heads = {} THEN "none"
                ELSE lines[CHOOSE h \in heads : \A g \in heads : g <= h].kind
    IN  [k \in 1..Len(lines) |->
            IF lines[k].kind = "dep" /\ section(k) = "[workspace.dependencies]"
            THEN Line("dep", version) ELSE lines[k]]

\* content.replace(regex, `$1"${version}"`) for the version patterns
replaceVersion(lines, header, version) ==
    LET j == matchLine(lines, header, {"version"})
    IN  IF j = 0 THEN lines ELSE [lines EXCEPT ![j] = Line("version", version)]

\* updateVersion(content, version)
updateVersion(lines, version) ==
    IF includes(lines, "[workspace.package]")
    THEN updateWorkspaceDependencyVersions(
             replaceVersion(lines, "[workspace.package]", version), version)
    ELSE replaceVersion(lines, "[package]", version)

\* dirname(dir): the working directory is its own parent
dirname(d) == IF d = 0 THEN 0 ELSE d - 1

\* `for (let i = 0; i < 10; i++)` of findWorkspaceRoot
LookupLimit == 10

\* The loop condition of findWorkspaceRoot, and a loop without the cap.
unlimited(i) == TRUE

withinLimit(i) == i < LookupLimit

\* The candidate of directory d is a workspace root: it exists and its text
\* includes '[workspace.package]'.
isRoot(file) == file.exists /\ includes(file.lines, "[workspace.package]")

\* findWorkspaceRoot(memberPath): [found, dir]
RECURSIVE walkUp(_, _, _)
walkUp(files, dir, i) ==
    IF ~withinLimit(i) THEN [found |-> FALSE, dir |-> 0]
    ELSE IF isRoot(files[dir]) THEN [found |-> TRUE, dir |-> dir]
    ELSE IF dirname(dir) = dir THEN [found |-> FALSE, dir |-> 0]
    ELSE walkUp(files, dirname(dir), i + 1)

findWorkspaceRoot(files, memberPath) == walkUp(files, dirname(memberPath), 0)

\* A path relative to the crate's directory: `up` levels above it.
Path(up, file) == [up |-> up, file |-> file]

\* relative(ctx.path, rootPath)
relative(from, rootDir) == Path(from - rootDir, "Cargo.toml")

Returned(version) == [threw |-> FALSE, version |-> version]

Threw == [threw |-> TRUE, version |-> 0]

\* CargoEcosystem.readVersion(ctx)
readVersion(files, c) ==
    LET content == files[c.path].lines
        root    == findWorkspaceRoot(files, c.path)
    IN  IF ~files[c.path].exists THEN Threw
        ELSE IF usesWorkspaceInheritance(content)
        THEN IF ~root.found THEN Threw
             ELSE IF extractWorkspaceVersion(files[root.dir].lines) = 0 THEN Threw
             ELSE Returned(extractWorkspaceVersion(files[root.dir].lines))
        ELSE IF parseVersion(content) = 0 THEN Threw
        ELSE Returned(parseVersion(content))

\* CargoEcosystem.writeVersion(ctx, version) rejects: readFileSync of a
\* missing manifest, or no workspace root for an inheriting crate.
writeVersionRejects(files, c) ==
    /\ ~c.dryRun
    /\ \/ ~files[c.path].exists
       \/ /\ usesWorkspaceInheritance(files[c.path].lines)
          /\ ~findWorkspaceRoot(files, c.path).found

\* The manifests after CargoEcosystem.writeVersion(ctx, version) resolves.
writeVersionCargo(files, c, version) ==
    LET content == files[c.path].lines
        root    == findWorkspaceRoot(files, c.path)
    IN  IF c.dryRun THEN files
        ELSE IF usesWorkspaceInheritance(content)
        THEN [files EXCEPT ![root.dir] =
                 File(updateVersion(files[root.dir].lines, version))]
        ELSE [files EXCEPT ![c.path] = File(updateVersion(content, version))]

\* CargoEcosystem.getVersionFiles(ctx)
getVersionFiles(files, c) ==
    LET root == findWorkspaceRoot(files, c.path)
    IN  <<Path(0, "Cargo.toml")>>
        \o (IF /\ files[c.path].exists
               /\ usesWorkspaceInheritance(files[c.path].lines)
               /\ root.found
            THEN <<relative(c.path, root.dir)>> ELSE <<>>)
        \o (IF c.lock THEN <<Path(0, "Cargo.lock")>> ELSE <<>>)

\* The manifests a crate directory is checked out with.
MemberManifests ==
    { File(<<Line("[package]", 0), Line("key", 0), Line("inherit", 0)>>),
      File(<<Line("[package]", 0), Line("inherit", 0), Line("array", 0)>>),
      File(<<Line("[package]", 0), Line("array", 0), Line("inherit", 0)>>),
      File(<<Line("[package]", 0), Line("key", 0), Line("version", 1)>>),
      File(<<Line("[package]", 0), Line("version", 1), Line("rust-inherit", 0)>>),
      File(<<Line("[workspace.package]", 0), Line("version", 1),
             Line("[package]", 0), Line("inherit", 0)>>),
      NoFile }

\* The manifests the directories above a crate are checked out with.
RootManifests ==
    { File(<<Line("[table]", 0), Line("array", 0),
             Line("[workspace.package]", 0), Line("version", 1), Line("key", 0)>>),
      File(<<Line("[workspace.package]", 0), Line("array", 0), Line("version", 1)>>),
      File(<<Line("[workspace.package]", 0), Line("key", 0)>>),
      File(<<Line("[workspace.package]", 0), Line("version", 1),
             Line("[workspace.dependencies]", 0), Line("dep", 1),
             Line("[table]", 0), Line("dep", 1)>>),
      File(<<Line("[table]", 0), Line("array", 0)>>),
      NoFile }

MiddleManifests ==
    { File(<<Line("[package]", 0), Line("key", 0), Line("version", 1)>>),
      File(<<Line("[workspace.package]", 0), Line("version", 1)>>),
      NoFile }

\* The versions written.
NewVersions == {2, 3}

\* A crate at the bottom of the checkout, or at its top (path '.').
InitCargo ==
    /\ LabelsIdle /\ RunIdle /\ LookupIdle /\ CleanupIdle /\ MintIdle /\ ClassifyIdle
    /\ \E path \in {0, 2}, dry \in BOOLEAN, lock \in BOOLEAN :
          ctx = [path |-> path, dryRun |-> dry, lock |-> lock]
    /\ \E member \in MemberManifests, middle \in MiddleManifests, top \in RootManifests :
          fs = IF ctx.path = 0
               THEN [d \in Dirs |-> IF d = 0 THEN member ELSE NoFile]
               ELSE [d \in Dirs |-> IF d = 2 THEN member ELSE IF d = 1 THEN middle ELSE top]
    /\ res = NoResult

ReadVersion ==
    /\ res' = [op |-> "readVersion", threw |-> readVersion(fs, ctx).threw,
               version |-> readVersion(fs, ctx).version, files |-> <<>>, before |-> fs]
    /\ UNCHANGED <<fs, ctx>>
    /\ UNCHANGED offCargo

WriteVersion ==
    /\ \E version \in NewVersions :
          IF writeVersionRejects(fs, ctx)
          THEN /\ res' = [op |-> "writeVersion", threw |-> TRUE, version |-> version,
                          files |-> <<>>, before |-> fs]
               /\ fs' = fs
          ELSE /\ res' = [op |-> "writeVersion", threw |-> FALSE, version |-> version,
                          files |-> <<>>, before |-> fs]
               /\ fs' = writeVersionCargo(fs, ctx, version)
    /\ UNCHANGED ctx
    /\ UNCHANGED offCargo

GetVersionFiles ==
    /\ res' = [op |-> "getVersionFiles", threw |-> FALSE, version |-> 0,
               files |-> getVersionFiles(fs, ctx), before |-> fs]
    /\ UNCHANGED <<fs, ctx>>
    /\ UNCHANGED offCargo

NextCargo == ReadVersion \/ WriteVersion \/ GetVersionFiles

SpecCargo == InitCargo /\ [][NextCargo]_vars

(***************************************************************************)
(* What a manifest says by the rules of TOML, against which the claims on  *)
(* the Cargo ecosystem are stated: a key belongs to the table whose header *)
(* is the last one above it, whatever the values of the keys in between.   *)
(***************************************************************************)
keyOf(lines, header, kinds) ==
    {j \in 1..Len(lines) :
        /\ lines[j].kind \in kinds
        /\ \E i \in 1..(j - 1) :
              /\ lines[i].kind = header
              /\ \A k \in (i + 1)..(j - 1) : ~isHeader(lines[k])}

\* [package] holds version.workspace = true
declaresInheritance(file) ==
    file.exists /\ keyOf(file.lines, "[package]", {"inherit"}) # {}

\* [workspace.package] holds a version
declaresWorkspaceVersion(file) ==
    file.exists /\ keyOf(file.lines, "[workspace.package]", {"version"}) # {}

\* The directories above the crate whose manifest is a workspace root with
\* a version, nearest first in rootAbove.
rootsAbove(files, path) ==
    {d \in 0..(path - 1) : declaresWorkspaceVersion(files[d])}

rootAbove(files, path) ==
    CHOOSE d \in rootsAbove(files, path) : \A e \in rootsAbove(files, path) : e <= d

\* An inheriting member of a workspace whose root lies above it, the root
\* being the nearest manifest above it with a [workspace.package] table.
memberOfWorkspace(files, path) ==
    /\ declaresInheritance(files[path])
    /\ ~includes(files[path].lines, "[workspace.package]")
    /\ rootsAbove(files, path) # {}
    /\ \A d \in (rootAbove(files, path) + 1)..(path - 1) : ~isRoot(files[d])

\* C7: for a member manifest that declares workspace version inheritance, a
\* non-dry writeVersion(memberCtx, v) changes only the workspace root
\* manifest, leaves the member file as it was, and a readVersion(memberCtx)
\* that follows returns v.
WriteVersionTargetsRoot ==
    ( /\ res.op = "writeVersion"
      /\ ~ctx.dryRun
      /\ memberOfWorkspace(res.before, ctx.path) )
    => /\ ~res.threw
       /\ \A d \in Dirs \ {rootAbove(res.before, ctx.path)} : fs[d] = res.before[d]
       /\ readVersion(fs, ctx) = Returned(res.version)

\* C8: for a member manifest that declares workspace version inheritance,
\* getVersionFiles(memberCtx) includes the path of the workspace root
\* manifest relative to the member directory.
VersionFilesIncludeRoot ==
    ( /\ res.op = "getVersionFiles"
      /\ memberOfWorkspace(res.before, ctx.path) )
    => \E k \in 1..Len(res.files) :
          res.files[k] = relative(ctx.path, rootAbove(res.before, ctx.path))

\* C9: when a member manifest declares workspace inheritance and the lookup
\* finds no workspace root, each of readVersion, writeVersion and
\* getVersionFiles fails with an error.
NoRootIsFatal ==
    ( /\ res.op \in {"readVersion", "writeVersion", "getVersionFiles"}
      /\ declaresInheritance(res.before[ctx.path])
      /\ ~includes(res.before[ctx.path].lines, "[workspace.package]")
      /\ ~findWorkspaceRoot(res.before, ctx.path).found )
    => res.threw

\* The lines of a manifest that hold its version field: the version key of
\* [workspace.package] and that of [package].
versionField(lines) ==
    keyOf(lines, "[workspace.package]", {"version"})
        \cup keyOf(lines, "[package]", {"version"})

\* The version constraints of the local crates of a workspace root: the
\* inline tables of [workspace.dependencies] with a version and a path.
memberConstraints(lines) ==
    IF includes(lines, "[workspace.package]")
    THEN keyOf(lines, "[workspace.dependencies]", {"dep"})
    ELSE {}

\* The lines that differ between a manifest and what it has become.
changedLines(before, after) ==
    IF ~before.exists \/ ~after.exists THEN {}
    ELSE {k \in 1..Len(before.lines) : after.lines[k] # before.lines[k]}

\* C24 as stated: writeVersion changes only the version field of the
\* manifest it writes; every other field and section is as it was.
OnlyVersionFieldChanges ==
    res.op = "writeVersion" =>
        \A d \in Dirs :
            /\ fs[d].exists = res.before[d].exists
            /\ Len(fs[d].lines) = Len(res.before[d].lines)
            /\ changedLines(res.before[d], fs[d]) \subseteq versionField(res.before[d].lines)

\* C24: writeVersion changes only the version field of the manifest it
\* writes and, in a workspace root, the version constraints that
\* [workspace.dependencies] holds for the crates given by path; every other
\* field and section is as it was, and a changed line keeps its key.
OnlyVersionAndMemberConstraintsChange ==
    res.op = "writeVersion" =>
        \A d \in Dirs :
            /\ fs[d].exists = res.before[d].exists
            /\ Len(fs[d].lines) = Len(res.before[d].lines)
            /\ changedLines(res.before[d], fs[d]) \subseteq
                  versionField(res.before[d].lines)
                      \cup memberConstraints(res.before[d].lines)
            /\ \A k \in changedLines(res.before[d], fs[d]) :
                  fs[d].lines[k] = Line(res.before[d].lines[k].kind, res.version)

\* A workspace root has been written: its version and the constraint in
\* [workspace.dependencies] are the new version, and the path entry of
\* another table is as it was.
OnlyVersionAndMemberConstraintsChangeWitness ==
    /\ res.op = "writeVersion" /\ ~res.threw /\ ~ctx.dryRun
    /\ \E d \in Dirs :
          /\ res.before[d].exists
          /\ versionField(res.before[d].lines) \cap changedLines(res.before[d], fs[d]) # {}
          /\ memberConstraints(res.before[d].lines)
                \cap changedLines(res.before[d], fs[d]) # {}
          /\ \E k \in 1..Len(fs[d].lines) :
                /\ fs[d].lines[k].kind = "dep"
                /\ k \notin memberConstraints(res.before[d].lines)
                /\ fs[d].lines[k] = res.before[d].lines[k]

(***************************************************************************)
(* findWorkspaceRoot, one loop iteration at a time, on deep trees.  The    *)
(* tree is the chain of directories from the top (0) down to the member's: *)
(* tree[d + 1] tells the Cargo.toml of directory d: "none", a "crate"      *)
(* manifest without [workspace.package], or a "root" with it.              *)
(***************************************************************************)
MaxDepth == 12

Trees ==
    { [d1 \in 1..(member + 1) |->
          IF d1 = rootAt + 1 THEN "root" ELSE IF d1 = crateAt + 1 THEN "crate" ELSE "none"] :
      <<member, rootAt, crateAt>> \in
          {t \in (0..MaxDepth) \X (-1..MaxDepth) \X (-1..MaxDepth) :
              t[2] <= t[1] /\ t[3] <= t[1]} }

InitLookup ==
    /\ LabelsIdle /\ RunIdle /\ CargoIdle /\ CleanupIdle /\ MintIdle /\ ClassifyIdle
    /\ \E tree \in Trees :
          look = [NoLookup EXCEPT !.pc = "start", !.tree = tree, !.member = Len(tree) - 1]

\* let dir = dirname(memberPath)
StartLookup ==
    /\ look.pc = "start"
    /\ look' = [look EXCEPT !.pc = "loop", !.dir = dirname(look.member), !.i = 0]
    /\ UNCHANGED offLookup

\* One iteration of the loop: the candidate of `dir` is examined and
\* returned if it is a root; else the walk ends at the top, or moves up.
ExamineCandidate ==
    /\ look.pc = "loop"
    /\ withinLimit(look.i)
    /\ look' =
          IF look.tree[look.dir + 1] = "root"
          THEN [look EXCEPT !.pc = "done", !.examined = @ + 1,
                            !.found = TRUE, !.result = look.dir]
          ELSE IF dirname(look.dir) = look.dir
          THEN [look EXCEPT !.pc = "done", !.examined = @ + 1]
          ELSE [look EXCEPT !.examined = @ + 1, !.dir = dirname(look.dir), !.i = @ + 1]
    /\ UNCHANGED offLookup

\* The loop condition fails: return null
ReturnNull ==
    /\ look.pc = "loop"
    /\ ~withinLimit(look.i)
    /\ look' = [look EXCEPT !.pc = "done"]
    /\ UNCHANGED offLookup

NextLookup == StartLookup \/ ExamineCandidate \/ ReturnNull

\* The lookup is synchronous code: a step that can be taken is taken.
SpecLookup == InitLookup /\ [][NextLookup]_vars /\ WF_vars(NextLookup)

\* The first LookupLimit directories above the member's (the working
\* directory being its own parent).
ancestors(member) ==
    {d \in 0..dirname(member) : dirname(member) - d < LookupLimit}

\* The answer is a root among those ancestors, the nearest one, or 'not
\* found' when none of them holds a root.
answered ==
    IF look.found
    THEN /\ look.result \in ancestors(look.member)
         /\ look.tree[look.result + 1] = "root"
         /\ \A d \in ancestors(look.member) :
               d > look.result => look.tree[d + 1] # "root"
    ELSE \A d \in ancestors(look.member) : look.tree[d + 1] # "root"

\* C10: the workspace-root lookup terminates on every directory tree: it
\* examines at most 10 ancestor directories of the member and then returns
\* a root manifest path or 'not found'.
LookupTerminates ==
    /\ [](look.examined <= LookupLimit /\ (look.pc = "done" => answered))
    /\ <>(look.pc = "done")

\* The cap ends the walk: ten ancestors examined, none a root, though a
\* root lies further up.
LookupTerminatesWitness ==
    /\ look.pc = "done"
    /\ look.examined = LookupLimit
    /\ ~look.found
    /\ \E d \in 1..Len(look.tree) : look.tree[d] = "root"

(***************************************************************************)
(* core/cleanup: runCleanup, one release type at a time, each deletion     *)
(* with its own outcome.  A state `s` is the record cln; `fails` tells     *)
(* which external operations fail: deleteRelease by release id, the remote *)
(* and the local deletion of a tag by tag, unpublish by package name       *)
(* (throwing, or declining with `false`), `git tag -l` by release type.    *)
(***************************************************************************)
NoTag == Tag("", InvalidVersion)

\* A message given to options.warn and, for most, pushed on result.warnings.
Message(text, tagName, name) == [text |-> text, tagName |-> tagName, name |-> name]

\* One call of gh.deleteRelease, deleteTag or ecosystem.unpublish: "ok",
\* "failed", "declined" (unpublish returned false) or "logged" (dry run).
Attempt(op, type, tagName, pkg, outcome) ==
    [op |-> op, type |-> type, tagName |-> tagName, pkg |-> pkg, outcome |-> outcome]

attempted(s, a) == [s EXCEPT !.attempts = Append(@, a)]

\* result.warnings.push(msg); options.warn(msg)
warning(s, msg) ==
    [s EXCEPT !.result.warnings = Append(@, msg), !.warned = Append(@, msg)]

\* The body of `for (const release of releasesToDelete)` for hosted releases,
\* with a variant that lets the error of gh.deleteRelease escape.
deleteReleaseUncaught(s, r, type) ==
    IF ~s.dryRun /\ r.id \in s.fails.release
    THEN [attempted(s, Attempt("deleteRelease", type, r.tagName, "", "failed"))
          EXCEPT !.pc = "threw"]
    ELSE attempted(s, Attempt("deleteRelease", type, r.tagName, "", "ok"))

deleteRelease(s, r, type) ==
    IF s.dryRun
    THEN attempted(s, Attempt("deleteRelease", type, r.tagName, "", "logged"))
    ELSE IF r.id \in s.fails.release
    THEN warning(attempted(s, Attempt("deleteRelease", type, r.tagName, "", "failed")),
                 Message("Failed to delete release", r.tagName, ""))
    ELSE [attempted(s, Attempt("deleteRelease", type, r.tagName, "", "ok"))
          EXCEPT !.releases = SelectSeq(@, LAMBDA x : x.id # r.id),
                 !.result.releasesDeleted = @ + 1]

RECURSIVE deleteReleases(_, _, _)
deleteReleases(s, sel, type) ==
    IF sel = <<>> THEN s
    ELSE deleteReleases(deleteRelease(s, Head(sel), type), Tail(sel), type)

\* deleteTag(tag, options), which never throws, and result.tagsDeleted++
deleteTag(s, t, type) ==
    IF s.dryRun
    THEN [attempted(s, Attempt("deleteTag", type, t, "", "logged"))
          EXCEPT !.result.tagsDeleted = @ + 1]
    ELSE LET outcome == IF t \in s.fails.remote \/ t \in s.fails.local
                        THEN "failed" ELSE "ok"
             s1 == attempted(s, Attempt("deleteTag", type, t, "", outcome))
             s2 == IF t \in s.fails.remote
                   THEN [s1 EXCEPT !.warned =
                            Append(@, Message("Failed to delete remote tag", t, ""))]
                   ELSE [s1 EXCEPT !.remote = @ \ {t}]
         IN  [s2 EXCEPT !.tags = IF t \in s.fails.local THEN @ ELSE @ \ {t},
                        !.result.tagsDeleted = @ + 1]

RECURSIVE deleteTags(_, _, _)
deleteTags(s, sel, type) ==
    IF sel = <<>> THEN s
    ELSE deleteTags(deleteTag(s, Head(sel), type), Tail(sel), type)

\* The body of `for (const pkg of options.packages)`; `first` tells whether
\* the release is the first of releasesToDelete.
unpublish(s, r, pkg, type, first) ==
    IF ~hasUnpublish(pkg.ecosystem)
    THEN IF pkg.ecosystem \in {"cargo", "go", "composer", "custom"} /\ first
         THEN warning(s, Message("does not support unpublishing", NoTag, pkg.ecosystem))
         ELSE s
    ELSE IF s.dryRun
    THEN [attempted(s, Attempt("unpublish", type, r.tagName, pkg.name, "logged"))
          EXCEPT !.result.packagesUnpublished = @ + 1]
    ELSE IF pkg.name \in s.fails.throws
    THEN warning(attempted(s, Attempt("unpublish", type, r.tagName, pkg.name, "failed")),
                 Message("Failed to unpublish", r.tagName, pkg.name))
    ELSE IF pkg.name \in s.fails.declines
    THEN attempted(s, Attempt("unpublish", type, r.tagName, pkg.name, "declined"))
    ELSE [attempted(s, Attempt("unpublish", type, r.tagName, pkg.name, "ok"))
          EXCEPT !.result.packagesUnpublished = @ + 1]

RECURSIVE unpublishFrom(_, _, _, _, _)
unpublishFrom(s, r, pkgs, type, first) ==
    IF pkgs = <<>> THEN s
    ELSE unpublishFrom(unpublish(s, r, Head(pkgs), type, first), r, Tail(pkgs), type, first)

RECURSIVE unpublishAll(_, _, _, _)
unpublishAll(s, sel, type, first) ==
    IF sel = <<>> THEN s
    ELSE unpublishAll(unpublishFrom(s, Head(sel), s.packages, type, first),
                      Tail(sel), type, FALSE)

\* cleanupReleaseType(gh, releases, releaseType, config, tagPrefix, options):
\* the state it leaves, pc "threw" when `git tag -l` fails.  The variant
\* deletes the hosted releases whether or not `releases` is set.
cleanupReleasesAnyway(s, type) ==
    LET policy == s.policy[type]
        sel == getReleasesToCleanup(s.listed, type, policy.keep)
        s1  == deleteReleases(s, sel, type)
    IN  IF ~policy.tags /\ ~policy.releases /\ ~policy.published THEN s
        ELSE IF policy.published THEN unpublishAll(s1, sel, type, TRUE)
        ELSE s1

cleanupReleaseType(s, type) ==
    LET policy == s.policy[type]
        sel == getReleasesToCleanup(s.listed, type, policy.keep)
        s1  == IF policy.releases THEN deleteReleases(s, sel, type) ELSE s
        s2  == IF policy.tags
               THEN IF type \in s.fails.listTags THEN [s1 EXCEPT !.pc = "threw"]
                    ELSE deleteTags(s1, getTagsToCleanup(getTagsForType(s1.tags, type),
                                                         policy.keep), type)
               ELSE s1
    IN  IF ~policy.tags /\ ~policy.releases /\ ~policy.published THEN s
        ELSE IF s2.pc = "threw" THEN s2
        ELSE IF policy.published THEN unpublishAll(s2, sel, type, TRUE)
        ELSE s2

\* The hosted releases, in the order listReleases gives them (not always by
\* date, and with equal dates), and the tags of the checkout: those of the
\* releases, floating tags and a tag without a release.
CleanupHistories ==
    LET dev1 == Tag("v", Version(1, 5, 0, <<"dev", 10>>))
        dev2 == Tag("v", Version(1, 5, 0, <<"dev", 15>>))
        dev3 == Tag("v", Version(1, 5, 0, <<"dev", 20>>))
        dev4 == Tag("v", Version(1, 5, 0, <<"dev", 25>>))
        rc1  == Tag("v", Version(1, 5, 0, <<"rc", 1>>))
        rc2  == Tag("v", Version(1, 5, 0, <<"rc", 2>>))
        rc3  == Tag("v", Version(1, 5, 0, <<"rc", 3>>))
        s142 == Tag("v", Version(1, 4, 2, <<>>))
        s143 == Tag("v", Version(1, 4, 3, <<>>))
        s144 == Tag("v", Version(1, 4, 4, <<>>))
        v1   == FloatingTag("v", Version(1, 4, 4, <<>>), 1)
        s190 == Tag("v", Version(1, 9, 0, <<>>))
        s1x0 == Tag("v", Version(1, 10, 0, <<>>))
    IN  { [releases |-> <<>>, tags |-> {}],
          [releases |-> <<Release(2, s1x0, 20, FALSE), Release(1, s190, 10, FALSE)>>,
           tags |-> {s190, s1x0}],
          [releases |-> <<Release(9, dev4, 90, TRUE), Release(8, s144, 80, FALSE),
                          Release(7, dev3, 70, TRUE), Release(6, rc3, 60, TRUE),
                          Release(5, dev2, 50, TRUE), Release(4, s143, 40, FALSE),
                          Release(3, rc2, 30, TRUE), Release(2, dev1, 20, TRUE),
                          Release(1, s142, 10, FALSE)>>,
           tags |-> {dev1, dev2, dev3, dev4, rc2, rc3, s142, s143, s144, v1}],
          [releases |-> <<Release(2, dev1, 20, TRUE), Release(7, dev3, 70, TRUE),
                          Release(5, dev2, 70, TRUE), Release(9, dev4, 20, TRUE),
                          Release(3, rc2, 30, TRUE), Release(1, rc1, 30, TRUE),
                          Release(6, rc3, 30, TRUE)>>,
           tags |-> {dev1, dev2, dev3, dev4, rc1}] }

\* config.cleanup: one policy for dev releases, one for the other types.
CleanupPolicies ==
    { [t \in {"dev", "alpha", "beta", "rc", "stable"} |-> IF t = "dev" THEN dev ELSE rest] :
        dev \in { CleanupPolicy(tags, releases, published, keep) :
                      tags \in BOOLEAN, releases \in BOOLEAN, published \in BOOLEAN,
                      keep \in {0, Keep} },
        rest \in { NoCleanup, CleanupPolicy(TRUE, TRUE, TRUE, Keep),
                   CleanupPolicy(FALSE, TRUE, FALSE, Keep),
                   CleanupPolicy(TRUE, TRUE, TRUE, 0) } }

\* options.packages
CleanupPackages ==
    { <<>>,
      <<Package("app", "npm", TRUE, TRUE, "ok")>>,
      <<Package("core", "cargo", TRUE, TRUE, "ok"), Package("util", "cargo", TRUE, TRUE, "ok"),
        Package("cli", "npm", TRUE, TRUE, "ok")>>,
      <<Package("img", "docker", TRUE, TRUE, "ok"), Package("mod", "go", TRUE, TRUE, "ok"),
        Package("lib", "python", TRUE, TRUE, "ok")>> }

\* The external operations that fail during the call.
Failures ==
    LET dev1 == Tag("v", Version(1, 5, 0, <<"dev", 10>>))
        dev2 == Tag("v", Version(1, 5, 0, <<"dev", 15>>))
        rc2  == Tag("v", Version(1, 5, 0, <<"rc", 2>>))
    IN  { NoFailures,
          [NoFailures EXCEPT !.release = {5}],
          [NoFailures EXCEPT !.release = 1..9],
          [NoFailures EXCEPT !.remote = {dev2}],
          [NoFailures EXCEPT !.local = {dev1, rc2}],
          [NoFailures EXCEPT !.throws = {"app", "cli"}],
          [NoFailures EXCEPT !.declines = {"app", "cli", "lib"}],
          [NoFailures EXCEPT !.release = {2, 5}, !.remote = {dev1, dev2, rc2},
                             !.throws = {"lib"}, !.declines = {"cli"}],
          [NoFailures EXCEPT !.listTags = {"rc"}],
          [NoFailures EXCEPT !.listReleases = TRUE] }

InitCleanup ==
    /\ LabelsIdle /\ RunIdle /\ CargoIdle /\ LookupIdle /\ MintIdle /\ ClassifyIdle
    /\ \E history \in CleanupHistories, policy \in CleanupPolicies,
          packages \in CleanupPackages, fails \in Failures,
          dry \in BOOLEAN, enabled \in BOOLEAN :
          /\ enabled \/ (~dry /\ fails = NoFailures /\ packages = <<>>)
          /\ cln = [NoCleanupRun EXCEPT
                      !.pc = "start", !.dryRun = dry, !.enabled = enabled,
                      !.policy = policy, !.packages = packages, !.fails = fails,
                      !.given = history, !.releases = history.releases,
                      !.tags = history.tags, !.remote = history.tags]

\* runCleanup up to its loop: `if (!config.enabled) return`, then
\* `const releases = await gh.listReleases(500)`
ListReleases ==
    /\ cln.pc = "start"
    /\ cln' = IF ~cln.enabled THEN [cln EXCEPT !.pc = "returned"]
              ELSE IF cln.fails.listReleases THEN [cln EXCEPT !.pc = "threw"]
              ELSE [cln EXCEPT !.pc = "types", !.idx = 1, !.listed = cln.releases]
    /\ UNCHANGED offCleanup

\* One iteration of `for (const releaseType of releaseTypes)`
CleanupReleaseType ==
    /\ cln.pc = "types"
    /\ cln.idx <= Len(ReleaseTypes)
    /\ LET s == cleanupReleaseType(cln, ReleaseTypes[cln.idx])
       IN  cln' = IF s.pc = "threw" THEN s ELSE [s EXCEPT !.idx = @ + 1]
    /\ UNCHANGED offCleanup

\* `return combinedResult`
ReturnResult ==
    /\ cln.pc = "types"
    /\ cln.idx > Len(ReleaseTypes)
    /\ cln' = [cln EXCEPT !.pc = "returned"]
    /\ UNCHANGED offCleanup

NextCleanup == ListReleases \/ CleanupReleaseType \/ ReturnResult

SpecCleanup == InitCleanup /\ [][NextCleanup]_vars

\* What a call was given to delete: for a release type, the releases and
\* the tags its policy selects from the releases listed and the tags the
\* checkout started with.
selectedReleases(type) ==
    getReleasesToCleanup(cln.listed, type, cln.policy[type].keep)

selectedTags(type) ==
    getTagsToCleanup(getTagsForType(cln.given.tags, type), cln.policy[type].keep)

types == {ReleaseTypes[i] : i \in 1..Len(ReleaseTypes)}

tried(op, type, tagName, pkg) ==
    \E i \in 1..Len(cln.attempts) :
        /\ cln.attempts[i].op = op
        /\ cln.attempts[i].type = type
        /\ cln.attempts[i].tagName = tagName
        /\ cln.attempts[i].pkg = pkg

\* C11: a failure while deleting or unpublishing an artifact never aborts
\* the cleanup run: runCleanup throws only when a listing fails, and when it
\* returns, every release, tag and published version its policies select,
\* of every release type, has had its deletion attempted.
DeletionFailureNeverAborts ==
    /\ cln.pc = "threw" =>
          \/ cln.fails.listReleases
          \/ \E t \in cln.fails.listTags : cln.policy[t].tags
    /\ (cln.pc = "returned" /\ cln.enabled) =>
          \A type \in types :
             /\ cln.policy[type].releases =>
                   \A i \in 1..Len(selectedReleases(type)) :
                      tried("deleteRelease", type, selectedReleases(type)[i].tagName, "")
             /\ cln.policy[type].tags =>
                   \A i \in 1..Len(selectedTags(type)) :
                      tried("deleteTag", type, selectedTags(type)[i], "")
             /\ cln.policy[type].published =>
                   \A i \in 1..Len(selectedReleases(type)) :
                      \A k \in 1..Len(cln.packages) :
                         cln.packages[k].ecosystem \in {"npm", "python"} =>
                            tried("unpublish", type, selectedReleases(type)[i].tagName,
                                  cln.packages[k].name)

\* A release deletion fails, and a tag of the same type, a published version
\* and a release of another type are dealt with after it; the call returns.
DeletionFailureNeverAbortsWitness ==
    /\ cln.pc = "returned"
    /\ \E i, j, k, l \in 1..Len(cln.attempts) :
          /\ i < j /\ j < k /\ k < l
          /\ cln.attempts[i].op = "deleteRelease" /\ cln.attempts[i].outcome = "failed"
          /\ cln.attempts[j].op = "deleteTag" /\ cln.attempts[j].type = cln.attempts[i].type
          /\ cln.attempts[k].op = "unpublish" /\ cln.attempts[k].outcome = "failed"
          /\ cln.attempts[l].op = "deleteRelease" /\ cln.attempts[l].outcome = "ok"
          /\ cln.attempts[l].type # cln.attempts[i].type

\* C12: every failed deletion of a cleanup run (of a hosted release, of a
\* tag locally or on the remote, of a published registry artifact) is
\* recorded as an entry of the warnings list of the CleanupResult.
EveryFailureInWarnings ==
    \A i \in 1..Len(cln.attempts) :
        cln.attempts[i].outcome \in {"failed", "declined"} =>
            \E k \in 1..Len(cln.result.warnings) :
                /\ cln.result.warnings[k].tagName = cln.attempts[i].tagName
                /\ cln.result.warnings[k].name = cln.attempts[i].pkg

\* The ecosystems of the packages that cannot unpublish, and the warnings of
\* the result about one of them.
withoutUnpublish ==
    {cln.packages[k].ecosystem : k \in 1..Len(cln.packages)} \ {"npm", "python"}

unsupportedWarnings(eco) ==
    SelectSeq(cln.result.warnings,
              LAMBDA m : m.text = "does not support unpublishing" /\ m.name = eco)

\* C13: when a cleanup run has published versions to remove (a policy with
\* `published` selects some release) and an ecosystem of the packages has no
\* unpublish capability, the run emits exactly one warning for that
\* ecosystem, however many versions, release types or packages are involved.
OneUnsupportedWarningPerEcosystem ==
    ( /\ cln.pc = "returned"
      /\ \E type \in types :
            cln.policy[type].published /\ selectedReleases(type) # <<>> )
    => \A eco \in withoutUnpublish : Len(unsupportedWarnings(eco)) = 1

ids(rels) == {rels[i].id : i \in 1..Len(rels)}

byId(rels, id) == rels[CHOOSE i \in 1..Len(rels) : rels[i].id = id]

\* C15: for keep >= 1, getReleasesToCleanup returns exactly the releases of
\* the requested type other than the `keep` most recently published of that
\* type: none of another type, none twice, all but `keep` of them (none when
\* there are at most `keep`), and none published after a release it keeps.
\* Stated of the releases listed and the type of each iteration of the loop.
SelectsAllButMostRecent ==
    (cln.pc = "types" /\ cln.idx <= Len(ReleaseTypes)) =>
    \A keep \in 1..(Keep + 2) :
        LET rels     == cln.listed
            type     == ReleaseTypes[cln.idx]
            sel      == getReleasesToCleanup(rels, type, keep)
            matching == ids(filterByType(rels, type))
            n        == Cardinality(matching)
        IN  /\ ids(sel) \subseteq matching
            /\ Cardinality(ids(sel)) = Len(sel)
            /\ Len(sel) = IF n <= keep THEN 0 ELSE n - keep
            /\ \A kept \in matching \ ids(sel), gone \in ids(sel) :
                   byId(rels, kept).publishedAt >= byId(rels, gone).publishedAt

\* Releases listed out of date order, some with equal dates, of which the
\* dev policy keeps the most recent and the run deleted the others.
SelectsAllButMostRecentWitness ==
    /\ cln.pc = "returned"
    /\ ~cln.dryRun
    /\ cln.policy["dev"].releases /\ cln.policy["dev"].keep >= 1
    /\ cln.given.releases # <<>>
    /\ cln.given.releases[1].publishedAt < cln.given.releases[2].publishedAt
    /\ Len(selectedReleases("dev")) >= 2
    /\ ids(filterByType(cln.releases, "dev")) =
          ids(filterByType(cln.given.releases, "dev")) \ ids(selectedReleases("dev"))

\* C16: a cleanup run touches an artifact kind of a release type only if
\* the type's policy enables it: a hosted release is deleted only under
\* `releases`, a tag only under `tags`, a registry version is unpublished
\* only under `published` and for a package whose ecosystem implements
\* unpublish; and each artifact is of the type whose policy selected it.
OnlyEnabledKindsTouched ==
    /\ \A i \in 1..Len(cln.attempts) :
          LET a == cln.attempts[i]
          IN  /\ getReleaseType(a.tagName.version) = a.type
              /\ a.op = "deleteRelease" => cln.policy[a.type].releases
              /\ a.op = "deleteTag" => cln.policy[a.type].tags
              /\ a.op = "unpublish" =>
                    /\ cln.policy[a.type].published
                    /\ \E k \in 1..Len(cln.packages) :
                          /\ cln.packages[k].name = a.pkg
                          /\ cln.packages[k].ecosystem \in {"npm", "python"}
    /\ \A type \in types :
          /\ ~cln.policy[type].releases =>
                filterByType(cln.releases, type) = filterByType(cln.given.releases, type)
          /\ ~cln.policy[type].tags =>
                /\ getTagsForType(cln.tags, type) = getTagsForType(cln.given.tags, type)
                /\ getTagsForType(cln.remote, type) = getTagsForType(cln.given.tags, type)

\* A real run whose dev policy enables only `releases`: dev releases were
\* deleted, while the dev tags beyond `keep` and the npm package's versions
\* were left alone.
OnlyEnabledKindsTouchedWitness ==
    /\ cln.pc = "returned"
    /\ ~cln.dryRun
    /\ cln.policy["dev"].releases /\ ~cln.policy["dev"].tags /\ ~cln.policy["dev"].published
    /\ selectedTags("dev") # <<>>
    /\ \E k \in 1..Len(cln.packages) : cln.packages[k].ecosystem = "npm"
    /\ \E i \in 1..Len(cln.attempts) :
          cln.attempts[i].type = "dev" /\ cln.attempts[i].outcome = "ok"

\* The tags and the releases of a release type that carry its newest
\* version: no other full tag of the type has a greater one.
newestTags(tagSet, type) ==
    LET full == {t \in getTagsForType(tagSet, type) : t.parts = 3}
    IN  {t \in full : \A u \in full : compareVersions(u.version, t.version) <= 0}

newestReleases(rels, type) ==
    LET of == {i \in 1..Len(rels) : getReleaseType(rels[i].tagName.version) = type}
    IN  {rels[i].id : i \in {k \in of : \A j \in of :
            compareVersions(rels[j].tagName.version, rels[k].tagName.version) <= 0}}

\* C27: with keep >= 1 for a release type, a cleanup run deletes neither the
\* tag nor the hosted release nor a published artifact of the newest version
\* of that type.
NewestVersionSurvives ==
    (cln.pc = "returned" /\ cln.enabled /\ ~cln.dryRun) =>
        \A type \in types :
            cln.policy[type].keep >= 1 =>
                /\ newestTags(cln.given.tags, type) \subseteq cln.tags
                /\ \A id \in newestReleases(cln.given.releases, type) :
                      /\ \E i \in 1..Len(cln.releases) : cln.releases[i].id = id
                      /\ \A k \in 1..Len(cln.packages) :
                            ~tried("unpublish", type,
                                   byId(cln.given.releases, id).tagName,
                                   cln.packages[k].name)

(***************************************************************************)
(* core/version on its own: bumpVersion and createDevVersion applied to    *)
(* version texts with and without a prerelease suffix and build metadata,  *)
(* while the clock advances in half seconds.                               *)
(***************************************************************************)
MaxMints == 2

LastInstant == 124

FirstInstants == {116, 117}

BumpTypes == {"major", "minor", "patch"}

\* A version text as semver.parse reads it: the fields of Version and the
\* build metadata after '+' (0 for none).
VersionText(ma, mi, pa, pre, build) ==
    [major |-> ma, minor |-> mi, patch |-> pa, pre |-> pre, build |-> build]

VersionTexts ==
    {VersionText(ma, mi, pa, pre, build) :
        ma \in {0, 1}, mi \in {0, 2}, pa \in {0, 3},
        pre \in {<<>>, <<"dev", 10059>>, <<"rc", 1>>}, build \in {0, 7}}
    \cup {[major |-> -1, minor |-> -1, patch |-> -1, pre |-> <<>>, build |-> 0]}

NotBumped == [type |-> "null", result |-> InvalidVersion]

InitVersion ==
    /\ LabelsIdle /\ RunIdle /\ CargoIdle /\ LookupIdle /\ CleanupIdle /\ ClassifyIdle
    /\ \E base \in VersionTexts, suffix \in {"dev", "rc"}, first \in FirstInstants :
            mint = [pc |-> "ready", now |-> first, base |-> base,
                    suffix |-> suffix, minted |-> <<>>, bumped |-> NotBumped]

\* time passes between two calls
Tick ==
    /\ mint.pc = "ready"
    /\ mint.now < LastInstant
    /\ mint' = [mint EXCEPT !.now = @ + 1]
    /\ UNCHANGED offMint

\* createDevVersion(base, suffix) with new Date() reading mint.now
CreateDevVersion ==
    /\ mint.pc = "ready"
    /\ Len(mint.minted) < MaxMints
    /\ mint' = [mint EXCEPT !.minted =
                    Append(@, [at |-> mint.now,
                               version |-> createDevVersion(mint.base, mint.suffix,
                                                            mint.now)])]
    /\ UNCHANGED offMint

\* bumpVersion(base, type)
BumpVersion ==
    /\ mint.pc = "ready"
    /\ \E type \in BumpTypes :
            mint' = [mint EXCEPT !.bumped =
                        [type |-> type, result |-> bumpVersion(mint.base, type)]]
    /\ UNCHANGED offMint

NextVersion == Tick \/ CreateDevVersion \/ BumpVersion

SpecVersion == InitVersion /\ [][NextVersion]_vars

token(v) == digits(v.pre[2])

\* C17: of two prerelease versions minted for the same base at different
\* instants, the one minted later carries the suffix token that is strictly
\* greater in lexicographic order.
LaterMintSortsAfter ==
    \A i, j \in DOMAIN mint.minted :
        (mint.minted[i].at < mint.minted[j].at /\ isValid(mint.minted[i].version))
            => stringLess(token(mint.minted[i].version), token(mint.minted[j].version))

\* C18: bumpVersion of a valid version, whatever its prerelease suffix or
\* build metadata, is the suffix-free version with the bumped part raised
\* by one and the parts after it reset to zero.
BumpFromBareVersion ==
    (mint.bumped.type # "null" /\ isValid(mint.base)) =>
        mint.bumped.result =
            CASE mint.bumped.type = "major" -> Version(mint.base.major + 1, 0, 0, <<>>)
              [] mint.bumped.type = "minor" ->
                    Version(mint.base.major, mint.base.minor + 1, 0, <<>>)
              [] mint.bumped.type = "patch" ->
                    Version(mint.base.major, mint.base.minor, mint.base.patch + 1, <<>>)

BumpFromBareVersionWitness ==
    /\ mint.bumped.type = "minor"
    /\ mint.base.pre # <<>> /\ mint.base.build # 0 /\ mint.base.patch = 0
    /\ mint.bumped.result = Version(mint.base.major, mint.base.minor + 1, 0, <<>>)

(***************************************************************************)
(* core/cleanup: getReleaseType on texts, as the filters of                *)
(* getReleasesToCleanup and getTagsForType call it on a tag name and as    *)
(* it is called on a bare version.                                         *)
(***************************************************************************)

\* text.includes(sub)
includesText(text, sub) ==
    \E i \in 0..(Len(text) - Len(sub)) : SubSeq(text, i + 1, i + Len(sub)) = sub

\* getReleaseType(version) on the text of the version
getReleaseTypeOfText(text) ==
    IF includesText(text, <<45>> \o chars("dev")) THEN "dev"
    ELSE IF includesText(text, <<45>> \o chars("alpha")) THEN "alpha"
    ELSE IF includesText(text, <<45>> \o chars("beta")) THEN "beta"
    ELSE IF includesText(text, <<45>> \o chars("rc")) THEN "rc"
    ELSE "stable"

\* the filter without the slice: the tag name is classified as it is
keepPrefix(tagName, tagPrefix) == tagName

\* tagName.startsWith(tagPrefix) ? tagName.slice(tagPrefix.length) : tagName
stripPrefix(tagName, tagPrefix) ==
    IF isPrefix(tagPrefix, tagName)
    THEN SubSeq(tagName, Len(tagPrefix) + 1, Len(tagName))
    ELSE tagName

\* Tag prefixes: "", "v" and "lib-beta-v".
PrefixTexts ==
    {<<>>, chars("v"), <<108, 105, 98, 45>> \o chars("beta") \o <<45>> \o chars("v")}

\* Version texts: 1.2.3 bare and with the suffixes -dev.5, -alpha.1, -beta.2,
\* -rc.1, -nightly.1, -predev.1, -alpha-dev.1, -rc.1.beta, and 1.2.3+b-rc.
VersionStrings ==
    LET bare == versionString(Version(1, 2, 3, <<>>))
    IN  {bare,
         versionString(Version(1, 2, 3, <<"dev", 5>>)),
         versionString(Version(1, 2, 3, <<"alpha", 1>>)),
         versionString(Version(1, 2, 3, <<"beta", 2>>)),
         versionString(Version(1, 2, 3, <<"rc", 1>>)),
         versionString(Version(1, 2, 3, <<"nightly", 1>>)),
         bare \o <<45, 112, 114, 101>> \o chars("dev") \o <<46, 49>>,
         bare \o <<45>> \o chars("alpha") \o <<45>> \o chars("dev") \o <<46, 49>>,
         bare \o <<45>> \o chars("rc") \o <<46, 49, 46>> \o chars("beta"),
         bare \o <<43, 98, 45>> \o chars("rc")}

InitClassify ==
    /\ LabelsIdle /\ RunIdle /\ CargoIdle /\ LookupIdle /\ CleanupIdle /\ MintIdle
    /\ \E tagPrefix \in PrefixTexts, made \in PrefixTexts, version \in VersionStrings :
            cls = [pc |-> "ready", tagPrefix |-> tagPrefix, tagName |-> made \o version,
                   version |-> version, ofTag |-> "unset", ofVersion |-> "unset"]

\* the filter of getReleasesToCleanup and getTagsForType on one tag name
ClassifyTag ==
    /\ cls.pc = "ready"
    /\ cls.ofTag = "unset"
    /\ cls' = [cls EXCEPT !.ofTag =
                    getReleaseTypeOfText(stripPrefix(cls.tagName, cls.tagPrefix))]
    /\ UNCHANGED offClassify

\* getReleaseType(version) on the bare version
ClassifyVersion ==
    /\ cls.pc = "ready"
    /\ cls.ofVersion = "unset"
    /\ cls' = [cls EXCEPT !.ofVersion = getReleaseTypeOfText(cls.version)]
    /\ UNCHANGED offClassify

NextClassify == ClassifyTag \/ ClassifyVersion

SpecClassify == InitClassify /\ [][NextClassify]_vars

\* The marker of a release type occurs in the text: a '-' followed by the
\* letters of the type.
markerOccurs(text, type) ==
    \E i \in 1..Len(text) :
        /\ text[i] = 45
        /\ i + Len(chars(type)) <= Len(text)
        /\ \A k \in 1..Len(chars(type)) : text[i + k] = chars(type)[k]

\* C22: when the tag name is the configured prefix followed by the version,
\* the release type found from the tag name (prefix stripped) and the one
\* found from the bare version are the same: the first of dev, alpha, beta,
\* rc whose marker occurs in the version, and stable when none does.
SameTypeFromTagAndVersion ==
    (cls.ofTag # "unset" /\ cls.ofVersion # "unset"
     /\ cls.tagName = cls.tagPrefix \o cls.version) =>
        /\ cls.ofTag = cls.ofVersion
        /\ cls.ofVersion =
              (IF markerOccurs(cls.version, "dev") THEN "dev"
               ELSE IF markerOccurs(cls.version, "alpha") THEN "alpha"
               ELSE IF markerOccurs(cls.version, "beta") THEN "beta"
               ELSE IF markerOccurs(cls.version, "rc") THEN "rc"
               ELSE "stable")

\* The tag lib-beta-v1.2.3-rc.1 under the prefix lib-beta-v and the version
\* 1.2.3-rc.1 have both been classified rc.
SameTypeFromTagAndVersionWitness ==
    /\ cls.tagPrefix = <<108, 105, 98, 45>> \o chars("beta") \o <<45>> \o chars("v")
    /\ cls.version = versionString(Version(1, 2, 3, <<"rc", 1>>))
    /\ cls.tagName = cls.tagPrefix \o cls.version
    /\ cls.ofTag = "rc" /\ cls.ofVersion = "rc"

\* C28: in a run that is not skipped, the release type the run assigns to
\* itself (the channel of the prerelease label, else dev in dev mode, else
\* stable) is the release type getReleaseType finds in the text of the
\* version the run has computed.
RunTypeIsVersionType ==
    (run.finalBumpType # "unset" /\ isValid(run.newVersion)) =>
        releaseType = getReleaseTypeOfText(versionString(run.newVersion))

\* The releases of the hosting service that carry the tag of this run.
releasesOfRun == {i \in 1..Len(world.releases) : world.releases[i].tagName = tag}

\* C29: under the default prerelease pattern, a release the run created for
\* a version with a prerelease suffix is not the one findLastStableRelease
\* picks, neither from the list as it stands nor from any later list, in
\* which it could only be picked if it were picked when standing alone.
SuffixedReleaseNeverLastStable ==
    (/\ run.releaseUrl = TRUE
     /\ run.newVersion.pre # <<>>
     /\ config.prereleasePattern = DefaultConfig.prereleasePattern) =>
        \A i \in releasesOfRun :
            /\ findLastStableRelease(world.releases, config.prereleasePattern) # i
            /\ findLastStableRelease(<<world.releases[i]>>, config.prereleasePattern) = 0

\* A stable-mode run with an rc label has created its release, which the
\* service does not flag as a prerelease.
SuffixedReleaseNeverLastStableWitness ==
    /\ run.releaseUrl = TRUE
    /\ run.newVersion.pre # <<>>
    /\ inputs.mode = "stable"
    /\ config.prereleasePattern = DefaultConfig.prereleasePattern
    /\ \E i \in releasesOfRun : ~world.releases[i].prerelease

\* C30: the version a run that is not skipped computes and reports is
\* strictly greater, by compareVersions, than the previous version, and so
\* is the version any bump type with any suffix would have given.
OutputVersionGreater ==
    /\ (run.finalBumpType # "unset" /\ isValid(run.newVersion)) =>
            /\ compareVersions(run.newVersion, run.previousVersion) = 1
            /\ \A type \in BumpTypes, suffix \in {"dev", "alpha", "beta", "rc"} :
                  LET base == bumpVersion(run.previousVersion, type)
                  IN  /\ compareVersions(base, run.previousVersion) = 1
                      /\ compareVersions(createDevVersion(base, suffix, inputs.now),
                                         run.previousVersion) = 1
    /\ (outputs.set /\ ~outputs.skipped) =>
            compareVersions(outputs.version, outputs.previousVersion) = 1

\* A run over a history with a stable release has reported a version with a
\* suffix.
OutputVersionGreaterWitness ==
    /\ outputs.set /\ ~outputs.skipped
    /\ outputs.version.pre # <<>>
    /\ outputs.previousVersion.major > 0
    /\ run.pc = "done"

====
